---- MODULE Spec2Model ----
(***************************************************************************)
(* State-machine model of bucketcache: a Bucket keeps a memory index       *)
(* (_cache) in front of one file per key in a directory, entries carry an  *)
(* absolute expiration date, and DeferredWriteBucket postpones the file    *)
(* writes until sync().                                                    *)
(*                                                                         *)
(* Python's None is the empty tuple and a present optional value x is the  *)
(* one-element tuple <<x>>.  datetime.utcnow() is the integer clock `now`, *)
(* a timedelta is an integer number of clock units.                        *)
(***************************************************************************)
EXTENDS Integers, Sequences, FiniteSets, TLC

(* ---- bounds of the model ---- *)
MaxTime == 3
MaxVal == 2
MaxLifetime == 2

\* One key is followed: every key has its own hash, its own file and its own
\* entry of the memory index, and no operation on one key reads another's.
Keys == {"k1"}
Values == 1..MaxVal
Times == 0..(MaxTime + MaxLifetime)

None == <<>>
Some(x) == <<x>>
Lifetimes == {Some(d) : d \in 1..MaxLifetime}

BucketIds == {"A"}

VARIABLES
    now,        \* datetime.utcnow()
    files,      \* the directory: path -> file content
    cache,      \* the _cache dicts: dict id -> (key hash -> Backend instance)
    cacheRef,   \* bucket -> id of the dict its _cache attribute refers to
    kind,       \* bucket -> its class, "Bucket" or "DeferredWriteBucket"
    backend,    \* bucket -> name of its backend class
    lifetime,   \* bucket -> _lifetime, None or Some(timedelta)
    last,       \* the last call made and how it ended
    hist,       \* history: key -> None or Some(the most recent set of the key)
    config,     \* bucket -> its config attribute, None or Some(config class)
    msgpack_available,  \* backends.msgpack_available
    made,       \* the key make_key was called on and what each key maker yielded
    trip,       \* an entry, the file content dumped from it and what was loaded back
    deco,       \* the DecoratorFactory of the wrapped function, None if none
    inst,       \* the instances a wrapped method is called on: id -> state
    call        \* the last call of the wrapped function and what it did

\* What no operation of a Bucket on its keys assigns.
ext == <<msgpack_available, made, trip, deco, inst, call>>

vars == <<now, files, cache, cacheRef, kind, backend, lifetime, last, hist,
          config, ext>>

(* ---- dict helpers (Python dict as a function on the present keys) ---- *)
DictSet(d, k, v) == [x \in (DOMAIN d) \cup {k} |-> IF x = k THEN v ELSE d[x]]
DictDel(d, k) == [x \in (DOMAIN d) \ {k} |-> d[x]]
EmptyDict == [x \in {} |-> None]

(* ---- backends ---- *)
BackendNames == {"PickleBackend", "JSONBackend", "MessagePackBackend"}

file_extension(be) ==
    CASE be = "PickleBackend" -> "pickle"
      [] be = "JSONBackend" -> "json"
      [] OTHER -> "msgpack"

\* datetime.isoformat() and dateutil's parse(): a date as text and back.
isoformat(d) == ToString(d)
parse(s) == CHOOSE t \in Times : ToString(t) = s

\* json.dump / json.load of an integer value: digits as text and back.
json_dumps(v) == ToString(v)
json_loads(s) == CHOOSE v \in Values : ToString(v) = s

\* Backend.__init__: a new instance holding value, expiration_date=None.
Backend(value) == [value |-> value, expiration_date |-> None]

\* Mutant of has_expired: the comparison the wrong way round.
has_expired_Reversed(obj) ==
    IF obj.expiration_date /= None
    THEN now < obj.expiration_date[1]
    ELSE FALSE

\* Mutant of has_expired: the expiration date counts only while the Bucket
\* has a lifetime, so removing the lifetime keeps the entries for good.
has_expired_WhileLifetime(obj) ==
    IF obj.expiration_date /= None /\ lifetime["A"] /= None
    THEN now > obj.expiration_date[1]
    ELSE FALSE

\* Backend.has_expired
has_expired(obj) ==
    IF obj.expiration_date /= None
    THEN now > obj.expiration_date[1]
    ELSE FALSE

\* Mutant of dump: the expiration date is left out of the file.
dump_NoExpiration(be, obj) ==
    [truncated |-> FALSE,
     value |-> IF be = "JSONBackend" THEN json_dumps(obj.value) ELSE obj.value,
     expiration_date |-> None]

\* <Backend>.dump: the file content written for obj.
dump(be, obj) ==
    CASE be = "PickleBackend" ->
            [truncated |-> FALSE,
             value |-> obj.value,
             expiration_date |-> obj.expiration_date]
      [] be = "JSONBackend" ->
            [truncated |-> FALSE,
             value |-> json_dumps(obj.value),
             expiration_date |->
                IF obj.expiration_date /= None
                THEN Some(isoformat(obj.expiration_date[1]))
                ELSE None]
      [] OTHER ->
            [truncated |-> FALSE,
             value |-> obj.value,
             expiration_date |->
                IF obj.expiration_date /= None
                THEN Some(isoformat(obj.expiration_date[1]))
                ELSE None]

\* Mutant of from_file: the expiration date in the file is not read.
from_file_NoExpiration(be, content) ==
    IF content.truncated
    THEN [ok |-> FALSE, obj |-> Backend(0)]
    ELSE [ok |-> TRUE,
          obj |-> [value |-> IF be = "JSONBackend"
                             THEN json_loads(content.value)
                             ELSE content.value,
                   expiration_date |-> None]]

\* <Backend>.from_file: [ok |-> FALSE] stands for BackendLoadError.
from_file(be, content) ==
    IF content.truncated
    THEN [ok |-> FALSE, obj |-> Backend(0)]
    ELSE CASE be = "PickleBackend" ->
                [ok |-> TRUE,
                 obj |-> [value |-> content.value,
                          expiration_date |-> content.expiration_date]]
           [] be = "JSONBackend" ->
                [ok |-> TRUE,
                 obj |-> [value |-> json_loads(content.value),
                          expiration_date |->
                             IF content.expiration_date /= None
                             THEN Some(parse(content.expiration_date[1]))
                             ELSE None]]
           [] OTHER ->
                [ok |-> TRUE,
                 obj |-> [value |-> content.value,
                          expiration_date |->
                             IF content.expiration_date /= None
                             THEN Some(parse(content.expiration_date[1]))
                             ELSE None]]

\* A file whose first byte was cut off (a partial write): it does not decode.
Truncated(be) == [dump(be, Backend(1)) EXCEPT !.truncated = TRUE]

\* f.stat().st_size
FileSize(content) ==
    (IF content.expiration_date = None THEN 2 ELSE 3)
        - (IF content.truncated THEN 1 ELSE 0)

(* ---- Bucket helpers ---- *)
\* Bucket._hash_for_key: md5 over the backend's name and the key's bytes.
hash_for_key(b, key) == <<backend[b], key>>

\* Mutant of path_for_hash: the file is named after the key alone, without
\* the backend's name in the hash and without the backend's extension.
path_for_hash_KeyOnly(b, key_hash) == <<(<<"", key_hash[2]>>), "">>

\* Bucket._path_for_hash: '{hash}.{extension}' inside the directory.
path_for_hash(b, key_hash) == <<key_hash, file_extension(backend[b])>>

\* Bucket._object_expiration_date
object_expiration_date(b) ==
    IF lifetime[b] /= None
    THEN Some(now + lifetime[b][1])
    ELSE None

IsKeyInvalidError(e) ==
    e \in {"KeyInvalidError", "KeyFileNotFoundError", "KeyExpirationError"}

\* Mutant of lifetime_changed: an object without expiration date is taken
\* as unchanged.
lifetime_changed_UnsetKept(b, obj) ==
    IF lifetime[b] /= None
    THEN IF obj.expiration_date = None
         THEN FALSE
         ELSE obj.expiration_date[1] > object_expiration_date(b)[1]
    ELSE FALSE

\* Bucket._get_obj_from_hash, the "lifetime changed" test: the object expires
\* later than anything written now would.
lifetime_changed(b, obj) ==
    IF lifetime[b] /= None
    THEN IF obj.expiration_date = None
         THEN TRUE
         ELSE obj.expiration_date[1] > object_expiration_date(b)[1]
    ELSE FALSE

\* The result of _get_obj_from_hash: outcome is "ok" or the exception raised,
\* fs and mem are the directory and memory index it leaves, src is where the
\* object was looked for.
GetResult(outcome, obj, fs, mem, src) ==
    [outcome |-> outcome, obj |-> obj, fs |-> fs, mem |-> mem, src |-> src]

\* Mutant of ExpireKey: the file is unlinked but the memory entry is kept.
ExpireKey_KeepMemory(fs, mem, b, key_hash, src) ==
    LET file_path == path_for_hash(b, key_hash)
    IN  IF file_path \in DOMAIN fs
        THEN GetResult("KeyExpirationError", Backend(0),
                       DictDel(fs, file_path), mem, src)
        ELSE GetResult("OSError", Backend(0), fs, mem, src)

\* Bucket._get_obj_from_hash, the expired branch: file_path.unlink(), then
\* del self._cache[key_hash], then KeyExpirationError.  unlink() of a missing
\* file raises OSError before the memory entry is removed.
ExpireKey(fs, mem, b, key_hash, src) ==
    LET file_path == path_for_hash(b, key_hash)
    IN  IF file_path \in DOMAIN fs
        THEN GetResult("KeyExpirationError", Backend(0),
                       DictDel(fs, file_path), DictDel(mem, key_hash), src)
        ELSE GetResult("OSError", Backend(0), fs, mem, src)

\* Mutant of GetObjFromHash: a file that does not decode is unlinked.
GetObjFromHash_UnlinkCorrupt(fs, mem, b, key_hash, load_file) ==
    LET file_path == path_for_hash(b, key_hash)
        in_mem == key_hash \in DOMAIN mem
        src == IF in_mem THEN "memory" ELSE IF load_file THEN "file" ELSE ""
    IN  IF ~in_mem /\ ~load_file
            THEN GetResult("KeyInvalidError", Backend(0), fs, mem, src)
        ELSE IF ~in_mem /\ file_path \notin DOMAIN fs
            THEN GetResult("KeyFileNotFoundError", Backend(0), fs, mem, src)
        ELSE IF ~in_mem /\ ~from_file(backend[b], fs[file_path]).ok
            THEN GetResult("KeyInvalidError", Backend(0),
                           DictDel(fs, file_path), mem, src)
        ELSE
            LET obj == IF in_mem THEN mem[key_hash]
                       ELSE from_file(backend[b], fs[file_path]).obj
                mem1 == IF in_mem THEN mem ELSE DictSet(mem, key_hash, obj)
            IN  IF has_expired(obj) \/ lifetime_changed(b, obj)
                THEN ExpireKey(fs, mem1, b, key_hash, src)
                ELSE GetResult("ok", obj, fs, mem1, src)

\* Bucket._get_obj_from_hash on directory fs and memory index mem.
GetObjFromHash(fs, mem, b, key_hash, load_file) ==
    LET file_path == path_for_hash(b, key_hash)
        in_mem == key_hash \in DOMAIN mem
        src == IF in_mem THEN "memory" ELSE IF load_file THEN "file" ELSE ""
    IN  IF ~in_mem /\ ~load_file
            THEN GetResult("KeyInvalidError", Backend(0), fs, mem, src)
        ELSE IF ~in_mem /\ file_path \notin DOMAIN fs
            THEN GetResult("KeyFileNotFoundError", Backend(0), fs, mem, src)
        ELSE IF ~in_mem /\ ~from_file(backend[b], fs[file_path]).ok
            THEN GetResult("KeyInvalidError", Backend(0), fs, mem, src)
        ELSE
            LET obj == IF in_mem THEN mem[key_hash]
                       ELSE from_file(backend[b], fs[file_path]).obj
                mem1 == IF in_mem THEN mem ELSE DictSet(mem, key_hash, obj)
            IN  IF has_expired(obj) \/ lifetime_changed(b, obj)
                THEN ExpireKey(fs, mem1, b, key_hash, src)
                ELSE GetResult("ok", obj, fs, mem1, src)

\* What else can go wrong while the file is loaded: open() fails with an
\* errno other than ENOENT, or the backend's from_file raises something that
\* is not BackendLoadError.  "" is no fault.
Faults == {"", "IOError", "RuntimeError"}

\* Bucket._get_obj_from_hash when the load of the file meets fault: the
\* exception is logged and raised again before self._cache is assigned.
\* from_file is only reached when open() succeeded.
GetObjFromHashFault(fs, mem, b, key_hash, load_file, fault) ==
    LET file_path == path_for_hash(b, key_hash)
        in_mem == key_hash \in DOMAIN mem
    IN  IF /\ ~in_mem
           /\ load_file
           /\ \/ fault = "IOError"
              \/ fault = "RuntimeError" /\ file_path \in DOMAIN fs
        THEN GetResult(fault, Backend(0), fs, mem, "file")
        ELSE GetObjFromHash(fs, mem, b, key_hash, load_file)

\* Mutant of SyncFiles: every entry of mem is written, expired or not.
SyncFiles_All(fs, mem, b) ==
    LET live == DOMAIN mem
        written == {path_for_hash(b, h) : h \in live}
    IN  [p \in (DOMAIN fs) \cup written |->
            IF p \in written
            THEN dump(backend[b], mem[p[1]])
            ELSE fs[p]]

\* DeferredWriteBucket.sync: the directory after writing every entry of mem
\* that has not expired.
SyncFiles(fs, mem, b) ==
    LET live == {h \in DOMAIN mem : ~has_expired(mem[h])}
        written == {path_for_hash(b, h) : h \in live}
    IN  [p \in (DOMAIN fs) \cup written |->
            IF p \in written
            THEN dump(backend[b], mem[p[1]])
            ELSE fs[p]]

\* Mutant of set_obj_with_hash: a file that exists is not written again.
set_obj_with_hash_KeepFile(fs, mem, b, key_hash, obj) ==
    [fs |-> IF kind[b] = "DeferredWriteBucket"
                \/ path_for_hash(b, key_hash) \in DOMAIN fs
            THEN fs
            ELSE DictSet(fs, path_for_hash(b, key_hash), dump(backend[b], obj)),
     mem |-> DictSet(mem, key_hash, obj)]

\* Mutant of set_obj_with_hash: Bucket puts the object in memory but never
\* writes its file.
set_obj_with_hash_NoWrite(fs, mem, b, key_hash, obj) ==
    [fs |-> fs, mem |-> DictSet(mem, key_hash, obj)]

\* Mutant of set_obj_with_hash: DeferredWriteBucket writes the file at once,
\* as Bucket does.
set_obj_with_hash_AlwaysWrite(fs, mem, b, key_hash, obj) ==
    [fs |-> DictSet(fs, path_for_hash(b, key_hash), dump(backend[b], obj)),
     mem |-> DictSet(mem, key_hash, obj)]

\* Bucket._set_obj_with_hash / DeferredWriteBucket._set_obj_with_hash
set_obj_with_hash(fs, mem, b, key_hash, obj) ==
    [fs |-> IF kind[b] = "DeferredWriteBucket"
            THEN fs
            ELSE DictSet(fs, path_for_hash(b, key_hash), dump(backend[b], obj)),
     mem |-> DictSet(mem, key_hash, obj)]

\* Mutant of update_or_make_obj_with_hash: an object found in memory gets the
\* new value but keeps its expiration date.
update_or_make_obj_with_hash_KeepExpiration(fs, mem, b, key_hash, value) ==
    LET r == GetObjFromHash(fs, mem, b, key_hash, FALSE)
        expiration == object_expiration_date(b)
    IN  IF r.outcome = "ok"
        THEN LET obj == [r.obj EXCEPT !.value = value]
             IN  [exc |-> "", cause |-> "", obj |-> obj, fs |-> r.fs,
                  mem |-> DictSet(r.mem, key_hash, obj)]
        ELSE IF IsKeyInvalidError(r.outcome)
        THEN [exc |-> "", cause |-> r.outcome,
              obj |-> [Backend(value) EXCEPT !.expiration_date = expiration],
              fs |-> r.fs, mem |-> r.mem]
        ELSE [exc |-> r.outcome, cause |-> r.outcome, obj |-> Backend(0),
              fs |-> r.fs, mem |-> r.mem]

\* Bucket._update_or_make_obj_with_hash
update_or_make_obj_with_hash(fs, mem, b, key_hash, value) ==
    LET r == GetObjFromHash(fs, mem, b, key_hash, FALSE)
        expiration == object_expiration_date(b)
    IN  IF r.outcome = "ok"
        THEN LET obj == [value |-> value, expiration_date |-> expiration]
             IN  [exc |-> "", cause |-> "", obj |-> obj, fs |-> r.fs,
                  mem |-> DictSet(r.mem, key_hash, obj)]
        ELSE IF IsKeyInvalidError(r.outcome)
        THEN [exc |-> "", cause |-> r.outcome,
              obj |-> [Backend(value) EXCEPT !.expiration_date = expiration],
              fs |-> r.fs, mem |-> r.mem]
        ELSE [exc |-> r.outcome, cause |-> r.outcome, obj |-> Backend(0),
              fs |-> r.fs, mem |-> r.mem]

(* ---- the record of the last call ---- *)
Call(op, b, key, arg) ==
    [op |-> op, bucket |-> b, key |-> key, arg |-> arg,
     exc |-> "", cause |-> "", src |-> "", ret |-> 0, num |-> 0, size |-> 0]

Mem(b) == cache[cacheRef[b]]

(* ---- operations ---- *)
\* Bucket.__setitem__
SetItem(b, key, value) ==
    LET key_hash == hash_for_key(b, key)
        u == update_or_make_obj_with_hash(files, Mem(b), b, key_hash, value)
        s == set_obj_with_hash(u.fs, u.mem, b, key_hash, u.obj)
    IN  IF u.exc /= ""
        THEN /\ files' = u.fs
             /\ cache' = [cache EXCEPT ![cacheRef[b]] = u.mem]
             /\ last' = [Call("set", b, key, value) EXCEPT
                            !.exc = u.exc, !.cause = u.cause]
             /\ hist' = hist
        ELSE /\ files' = s.fs
             /\ cache' = [cache EXCEPT ![cacheRef[b]] = s.mem]
             /\ last' = [Call("set", b, key, value) EXCEPT !.cause = u.cause]
             /\ hist' = [hist EXCEPT ![key] =
                            Some([value |-> value, at |-> now,
                                  lifetime |-> lifetime[b],
                                  prev |-> IF hist[key] = None THEN None
                                           ELSE Some(hist[key][1].at)])]

Set(b, key, value) ==
    /\ SetItem(b, key, value)
    /\ UNCHANGED <<ext, config, now, cacheRef, kind, backend, lifetime>>

\* Bucket.__getitem__ (through _get_obj)
Get(b, key) ==
    LET r == GetObjFromHash(files, Mem(b), b, hash_for_key(b, key), TRUE)
    IN  /\ files' = r.fs
        /\ cache' = [cache EXCEPT ![cacheRef[b]] = r.mem]
        /\ last' = [Call("get", b, key, 0) EXCEPT
                       !.exc = IF r.outcome = "ok" THEN ""
                               ELSE IF IsKeyInvalidError(r.outcome) THEN "KeyError"
                               ELSE r.outcome,
                       !.cause = IF r.outcome = "ok" THEN "" ELSE r.outcome,
                       !.src = r.src,
                       !.ret = r.obj.value]
        /\ UNCHANGED <<ext, config, now, cacheRef, kind, backend, lifetime, hist>>

\* Mutant of get_obj_exc: every exception of the lookup becomes KeyError.
get_obj_exc_CatchAll(outcome) ==
    IF outcome = "ok" THEN "" ELSE "KeyError"

\* Bucket._get_obj: KeyInvalidError and its subclasses become KeyError,
\* anything else passes through.
get_obj_exc(outcome) ==
    IF outcome = "ok" THEN ""
    ELSE IF IsKeyInvalidError(outcome) THEN "KeyError"
    ELSE outcome

\* Bucket.__getitem__ while the environment may fail the load of the file.
GetFault(b, key, fault) ==
    LET r == GetObjFromHashFault(files, Mem(b), b, hash_for_key(b, key),
                                 TRUE, fault)
    IN  /\ files' = r.fs
        /\ cache' = [cache EXCEPT ![cacheRef[b]] = r.mem]
        /\ last' = [Call("get", b, key, 0) EXCEPT
                       !.exc = get_obj_exc(r.outcome),
                       !.cause = IF r.outcome = "ok" THEN "" ELSE r.outcome,
                       !.src = r.src,
                       !.ret = r.obj.value]
        /\ UNCHANGED <<ext, config, now, cacheRef, kind, backend, lifetime, hist>>

\* Bucket.__contains__
Contains(b, key) ==
    LET r == GetObjFromHash(files, Mem(b), b, hash_for_key(b, key), TRUE)
    IN  /\ files' = r.fs
        /\ cache' = [cache EXCEPT ![cacheRef[b]] = r.mem]
        /\ last' = [Call("contains", b, key, 0) EXCEPT
                       !.exc = IF r.outcome = "ok" \/ IsKeyInvalidError(r.outcome)
                               THEN "" ELSE r.outcome,
                       !.cause = IF r.outcome = "ok" THEN "" ELSE r.outcome,
                       !.src = r.src,
                       !.ret = IF r.outcome = "ok" THEN 1 ELSE 0]
        /\ UNCHANGED <<ext, config, now, cacheRef, kind, backend, lifetime, hist>>

\* Mutant of DelItem: the file and the memory entry are removed without asking
\* first whether the key resolves.
DelItem_NoCheck(fs, mem, b, key) ==
    LET key_hash == hash_for_key(b, key)
        file_path == path_for_hash(b, key_hash)
    IN  IF file_path \in DOMAIN fs
        THEN [exc |-> "", cause |-> "", src |-> "file",
              fs |-> DictDel(fs, file_path), mem |-> DictDel(mem, key_hash)]
        ELSE [exc |-> "KeyError", cause |-> "KeyFileNotFoundError",
              src |-> "file", fs |-> fs, mem |-> mem]

\* Mutant of DelItem: the file is unlinked but the memory entry is kept.
DelItem_KeepMemory(fs, mem, b, key) ==
    LET key_hash == hash_for_key(b, key)
        file_path == path_for_hash(b, key_hash)
        r == GetObjFromHash(fs, mem, b, key_hash, TRUE)
    IN  IF r.outcome = "ok"
        THEN IF file_path \in DOMAIN r.fs
             THEN [exc |-> "", cause |-> "", src |-> r.src,
                   fs |-> DictDel(r.fs, file_path), mem |-> r.mem]
             ELSE [exc |-> "OSError", cause |-> "OSError", src |-> r.src,
                   fs |-> r.fs, mem |-> r.mem]
        ELSE [exc |-> IF IsKeyInvalidError(r.outcome) THEN "KeyError"
                      ELSE r.outcome,
              cause |-> r.outcome, src |-> r.src, fs |-> r.fs, mem |-> r.mem]

\* Bucket.__delitem__
DelItem(fs, mem, b, key) ==
    LET key_hash == hash_for_key(b, key)
        file_path == path_for_hash(b, key_hash)
        r == GetObjFromHash(fs, mem, b, key_hash, TRUE)
    IN  IF r.outcome = "ok"
        THEN IF file_path \in DOMAIN r.fs
             THEN [exc |-> "", cause |-> "", src |-> r.src,
                   fs |-> DictDel(r.fs, file_path),
                   mem |-> DictDel(r.mem, key_hash)]
             ELSE [exc |-> "OSError", cause |-> "OSError", src |-> r.src,
                   fs |-> r.fs, mem |-> r.mem]
        ELSE [exc |-> IF IsKeyInvalidError(r.outcome) THEN "KeyError"
                      ELSE r.outcome,
              cause |-> r.outcome, src |-> r.src, fs |-> r.fs, mem |-> r.mem]

Delete(b, key) ==
    LET d == DelItem(files, Mem(b), b, key)
    IN  /\ files' = d.fs
        /\ cache' = [cache EXCEPT ![cacheRef[b]] = d.mem]
        /\ last' = [Call("delete", b, key, 0) EXCEPT
                       !.exc = d.exc, !.cause = d.cause, !.src = d.src]
        /\ hist' = [hist EXCEPT ![key] = None]
        /\ UNCHANGED <<ext, config, now, cacheRef, kind, backend, lifetime>>

\* Mutant of UnloadKeyResult: DeferredWriteBucket does not sync before it
\* drops the memory entry.
UnloadKeyResult_NoSync(fs, mem, b, key) ==
    LET key_hash == hash_for_key(b, key)
        r == GetObjFromHash(fs, mem, b, key_hash, TRUE)
    IN  IF r.outcome = "ok"
        THEN [exc |-> "", cause |-> "", fs |-> r.fs,
              mem |-> DictDel(r.mem, key_hash)]
        ELSE [exc |-> IF IsKeyInvalidError(r.outcome) THEN "" ELSE r.outcome,
              cause |-> r.outcome, fs |-> r.fs, mem |-> r.mem]

\* Bucket.unload_key / DeferredWriteBucket.unload_key
UnloadKeyResult(fs, mem, b, key) ==
    LET key_hash == hash_for_key(b, key)
        fs0 == IF kind[b] = "DeferredWriteBucket"
               THEN SyncFiles(fs, mem, b)
               ELSE fs
        r == GetObjFromHash(fs0, mem, b, key_hash, TRUE)
    IN  IF r.outcome = "ok"
        THEN [exc |-> "", cause |-> "", fs |-> r.fs,
              mem |-> DictDel(r.mem, key_hash)]
        ELSE [exc |-> IF IsKeyInvalidError(r.outcome) THEN "" ELSE r.outcome,
              cause |-> r.outcome, fs |-> r.fs, mem |-> r.mem]

UnloadKey(b, key) ==
    LET u == UnloadKeyResult(files, Mem(b), b, key)
    IN  /\ files' = u.fs
        /\ cache' = [cache EXCEPT ![cacheRef[b]] = u.mem]
        /\ last' = [Call("unload_key", b, key, 0) EXCEPT
                       !.exc = u.exc, !.cause = u.cause]
        /\ UNCHANGED <<ext, config, now, cacheRef, kind, backend, lifetime, hist>>

\* Mutant of PruneLoop: a file that does not decode is counted as removed.
RECURSIVE PruneLoop_CountInvalid(_, _, _, _)
PruneLoop_CountInvalid(S, fs, mem, b) ==
    IF S = {}
    THEN [exc |-> "", fs |-> fs, mem |-> mem, size |-> 0, num |-> 0]
    ELSE
        LET f == CHOOSE p \in S : TRUE
            filesize == FileSize(fs[f])
            key_hash == f[1]
            in_cache == key_hash \in DOMAIN mem
            r == GetObjFromHash(fs, mem, b, key_hash, TRUE)
        IN  IF r.outcome = "KeyExpirationError" \/ r.outcome = "KeyInvalidError"
            THEN LET rest == PruneLoop_CountInvalid(S \ {f}, r.fs, r.mem, b)
                 IN  [rest EXCEPT !.size = @ + filesize, !.num = @ + 1]
            ELSE IF IsKeyInvalidError(r.outcome)
            THEN PruneLoop_CountInvalid(S \ {f}, r.fs, r.mem, b)
            ELSE IF r.outcome /= "ok"
            THEN [exc |-> r.outcome, fs |-> r.fs, mem |-> r.mem,
                  size |-> 0, num |-> 0]
            ELSE PruneLoop_CountInvalid(S \ {f}, r.fs,
                           IF in_cache THEN r.mem ELSE DictDel(r.mem, key_hash),
                           b)

\* Mutant of PruneLoop: an entry loaded from its file to be judged is left in
\* the memory index.
RECURSIVE PruneLoop_KeepLoaded(_, _, _, _)
PruneLoop_KeepLoaded(S, fs, mem, b) ==
    IF S = {}
    THEN [exc |-> "", fs |-> fs, mem |-> mem, size |-> 0, num |-> 0]
    ELSE
        LET f == CHOOSE p \in S : TRUE
            filesize == FileSize(fs[f])
            key_hash == f[1]
            r == GetObjFromHash(fs, mem, b, key_hash, TRUE)
        IN  IF r.outcome = "KeyExpirationError"
            THEN LET rest == PruneLoop_KeepLoaded(S \ {f}, r.fs, r.mem, b)
                 IN  [rest EXCEPT !.size = @ + filesize, !.num = @ + 1]
            ELSE IF IsKeyInvalidError(r.outcome)
            THEN PruneLoop_KeepLoaded(S \ {f}, r.fs, r.mem, b)
            ELSE IF r.outcome /= "ok"
            THEN [exc |-> r.outcome, fs |-> r.fs, mem |-> r.mem,
                  size |-> 0, num |-> 0]
            ELSE PruneLoop_KeepLoaded(S \ {f}, r.fs, r.mem, b)

\* Bucket.prune_directory: the loop over the files S still to visit.
RECURSIVE PruneLoop(_, _, _, _)
PruneLoop(S, fs, mem, b) ==
    IF S = {}
    THEN [exc |-> "", fs |-> fs, mem |-> mem, size |-> 0, num |-> 0]
    ELSE
        LET f == CHOOSE p \in S : TRUE
            filesize == FileSize(fs[f])
            key_hash == f[1]
            in_cache == key_hash \in DOMAIN mem
            r == GetObjFromHash(fs, mem, b, key_hash, TRUE)
        IN  IF r.outcome = "KeyExpirationError"
            THEN LET rest == PruneLoop(S \ {f}, r.fs, r.mem, b)
                 IN  [rest EXCEPT !.size = @ + filesize, !.num = @ + 1]
            ELSE IF IsKeyInvalidError(r.outcome)
            THEN PruneLoop(S \ {f}, r.fs, r.mem, b)
            ELSE IF r.outcome /= "ok"
            THEN [exc |-> r.outcome, fs |-> r.fs, mem |-> r.mem,
                  size |-> 0, num |-> 0]
            ELSE PruneLoop(S \ {f}, r.fs,
                           IF in_cache THEN r.mem ELSE DictDel(r.mem, key_hash),
                           b)

PruneDirectory(b) ==
    LET glob == {p \in DOMAIN files : p[2] = file_extension(backend[b])}
        r == PruneLoop(glob, files, Mem(b), b)
    IN  /\ files' = r.fs
        /\ cache' = [cache EXCEPT ![cacheRef[b]] = r.mem]
        /\ last' = [Call("prune_directory", b, "", 0) EXCEPT
                       !.exc = r.exc, !.num = r.num, !.size = r.size]
        /\ UNCHANGED <<ext, config, now, cacheRef, kind, backend, lifetime, hist>>

\* DeferredWriteBucket.sync
Sync(b) ==
    /\ kind[b] = "DeferredWriteBucket"
    /\ files' = SyncFiles(files, Mem(b), b)
    /\ last' = Call("sync", b, "", 0)
    /\ UNCHANGED <<ext, config, now, cache, cacheRef, kind, backend, lifetime, hist>>

\* timedelta.total_seconds() of a lifetime, 0 for None.
Seconds(l) == IF l = None THEN 0 ELSE l[1]

\* Bucket.lifetime setter: a zero timedelta is stored as None.
lifetime_setter(value) ==
    IF value = None \/ value = Some(0) THEN None ELSE value

\* dict.update
DictUpdate(d, e) ==
    [x \in (DOMAIN d) \cup (DOMAIN e) |-> IF x \in DOMAIN e THEN e[x] ELSE d[x]]

\* Mutant of EnterScope: the view gets a copy of the bucket's dict.
EnterScope_CopyCache(b) ==
    /\ "D" \notin DOMAIN kind
    /\ kind[b] = "Bucket"
    /\ kind' = DictSet(kind, "D", "DeferredWriteBucket")
    /\ backend' = DictSet(backend, "D", backend[b])
    /\ lifetime' = DictSet(lifetime, "D", lifetime_setter(lifetime[b]))
    /\ cacheRef' = DictSet(cacheRef, "D", "D")
    /\ cache' = DictSet(cache, "D", Mem(b))
    /\ config' = DictSet(config, "D", config[b])
    /\ last' = Call("deferred_write", b, "", 0)
    /\ UNCHANGED <<ext, now, files, hist>>

\* deferred_write(bucket) up to its yield: DeferredWriteBucket.from_bucket
\* makes the view "D" with the bucket's backend and lifetime, and its _cache
\* attribute refers to the bucket's own dict.
EnterScope(b) ==
    /\ "D" \notin DOMAIN kind
    /\ kind[b] = "Bucket"
    /\ kind' = DictSet(kind, "D", "DeferredWriteBucket")
    /\ backend' = DictSet(backend, "D", backend[b])
    /\ lifetime' = DictSet(lifetime, "D", lifetime_setter(lifetime[b]))
    /\ cacheRef' = DictSet(cacheRef, "D", cacheRef[b])
    /\ config' = DictSet(config, "D", config[b])
    /\ last' = Call("deferred_write", b, "", 0)
    /\ UNCHANGED <<ext, now, files, cache, hist>>

\* deferred_write(bucket) after its yield, when the body of the with block
\* ended normally: sync(), then bucket._cache.update(view._cache).
ExitScope(b) ==
    /\ "D" \in DOMAIN kind
    /\ kind[b] = "Bucket"
    /\ files' = SyncFiles(files, Mem("D"), "D")
    /\ cache' = [cache EXCEPT ![cacheRef[b]] = DictUpdate(Mem(b), Mem("D"))]
    /\ kind' = DictDel(kind, "D")
    /\ backend' = DictDel(backend, "D")
    /\ lifetime' = DictDel(lifetime, "D")
    /\ cacheRef' = DictDel(cacheRef, "D")
    /\ config' = DictDel(config, "D")
    /\ last' = Call("scope_exit", b, "", 0)
    /\ UNCHANGED <<ext, now, hist>>

\* deferred_write(bucket) when the body of the with block raises: the
\* exception is thrown into the generator at its yield, which is not inside a
\* try, so the statements after the yield do not run.
ExitScopeRaise(b) ==
    /\ "D" \in DOMAIN kind
    /\ kind[b] = "Bucket"
    /\ kind' = DictDel(kind, "D")
    /\ backend' = DictDel(backend, "D")
    /\ lifetime' = DictDel(lifetime, "D")
    /\ cacheRef' = DictDel(cacheRef, "D")
    /\ config' = DictDel(config, "D")
    /\ last' = [Call("scope_exit", b, "", 0) EXCEPT
                   !.exc = "BodyError", !.cause = "BodyError"]
    /\ UNCHANGED <<ext, now, files, cache, hist>>

(* ---- construction and configuration ---- *)
\* The config classes; a config object is known by its class, and its keys
\* are those of the backend it was made for.
ConfigNames == {"PickleConfig", "JSONConfig", "MessagePackConfig"}

\* <Backend>.default_config
default_config(be) ==
    CASE be = "PickleBackend" -> "PickleConfig"
      [] be = "JSONBackend" -> "JSONConfig"
      [] OTHER -> "MessagePackConfig"

\* set(config.asdict()): one key stands for the keys of each config class.
config_keys(c) ==
    CASE c = "PickleConfig" -> {"protocol"}
      [] c = "JSONConfig" -> {"indent"}
      [] OTHER -> {"use_list"}

\* Backend.valid_config: "TypeError" when the passed config has a key that
\* the backend's default config has not, "" otherwise.
valid_config(be, cfg) ==
    IF cfg /= None /\ ~(config_keys(cfg[1]) \subseteq config_keys(default_config(be)))
    THEN "TypeError"
    ELSE ""

\* <Backend>.__init__, as called by self.backend(value, config=self.config):
\* the exception it raises, "" when it returns.
backend_init(be, cfg) ==
    IF be = "MessagePackBackend" /\ ~msgpack_available
    THEN "TypeError"
    ELSE valid_config(be, cfg)

\* The arguments a lifetime can be given as: None, a timedelta of val time
\* units, a string, an integer.
LifetimeArgs ==
    {[type |-> "NoneType", val |-> 0], [type |-> "str", val |-> 1],
     [type |-> "int", val |-> 5]}
        \cup {[type |-> "timedelta", val |-> d] : d \in (-1)..MaxLifetime}

\* bool(value)
truthy(value) == value.type /= "NoneType" /\ value.val /= 0

\* The **kwargs a Bucket can be constructed with: none, seconds=v, an unknown
\* name, or both.
KwargSets ==
    {EmptyDict, [n \in {"nonsense"} |-> 4], [n \in {"seconds", "nonsense"} |-> 1]}
        \cup {[n \in {"seconds"} |-> v] : v \in (-1)..MaxLifetime}

valid_kwargs ==
    {"days", "seconds", "microseconds", "milliseconds", "minutes", "hours",
     "weeks"}

\* Bucket.lifetime setter with its checks: the exception raised ("" if none)
\* and the value _lifetime has afterwards.  Comparing a value that is not a
\* timedelta with timedelta(0) raises TypeError.
lifetime_set(old, value) ==
    IF value.type /= "NoneType" /\ value.type /= "timedelta"
        THEN [exc |-> "TypeError", lifetime |-> old]
    ELSE IF value.type /= "NoneType" /\ value.val < 0
        THEN [exc |-> "ValueError", lifetime |-> old]
    ELSE IF ~truthy(value)
        THEN [exc |-> "", lifetime |-> None]
    ELSE [exc |-> "", lifetime |-> Some(value.val)]

\* Bucket.__init__, the lifetime arguments: the exception raised ("" if
\* none) and the lifetime handed to the setter.
init_lifetime(lt, kwargs) ==
    IF DOMAIN kwargs /= {}
    THEN IF ~(DOMAIN kwargs \subseteq valid_kwargs)
            THEN [exc |-> "TypeError", lifetime |-> lt]
         ELSE IF truthy(lt)
            THEN [exc |-> "ValueError", lifetime |-> lt]
         ELSE [exc |-> "",
               lifetime |-> [type |-> "timedelta", val |-> kwargs["seconds"]]]
    ELSE [exc |-> "", lifetime |-> lt]

\* What can be passed as backend: the three backend classes, or a class that
\* does not inherit from Backend.
BackendArgs == BackendNames \cup {"CustomObject"}

\* Bucket.__init__: the exception it raises, "" when the Bucket is made.
init_exc(be, lt, kwargs) ==
    LET l == init_lifetime(lt, kwargs)
    IN  IF l.exc /= "" THEN l.exc
        ELSE IF be \notin BackendNames THEN "TypeError"
        ELSE lifetime_set(None, l.lifetime).exc

\* Bucket(path, backend=be, config=cfg, lifetime=lt, **kwargs)
Construct(b, be, cfg, lt, kwargs) ==
    /\ b \notin DOMAIN kind
    /\ LET e == init_exc(be, lt, kwargs)
           l == lifetime_set(None, init_lifetime(lt, kwargs).lifetime)
       IN  /\ last' = [Call("init", b, "", 0) EXCEPT !.exc = e, !.cause = e]
           /\ IF e /= ""
              THEN UNCHANGED <<kind, backend, config, lifetime, cacheRef, cache>>
              ELSE /\ kind' = DictSet(kind, b, "Bucket")
                   /\ backend' = DictSet(backend, b, be)
                   /\ config' = DictSet(config, b, cfg)
                   /\ lifetime' = DictSet(lifetime, b, l.lifetime)
                   /\ cacheRef' = DictSet(cacheRef, b, b)
                   /\ cache' = DictSet(cache, b, EmptyDict)
    /\ UNCHANGED <<ext, now, files, hist>>

\* bucket.lifetime = value, with any value
AssignLifetime(b, value) ==
    LET l == lifetime_set(lifetime[b], value)
    IN  /\ lifetime' = [lifetime EXCEPT ![b] = l.lifetime]
        /\ last' = [Call("set_lifetime", b, "", 0) EXCEPT
                       !.exc = l.exc, !.cause = l.exc]
        /\ UNCHANGED <<ext, config, now, files, cache, cacheRef, kind, backend,
                       hist>>

\* Bucket.__setitem__ of a Bucket with any config: when no object is found
\* in memory, _update_or_make_obj_with_hash instantiates the backend, which
\* checks the config and the msgpack dependency.
SetCfg(b, key, value) ==
    LET key_hash == hash_for_key(b, key)
        r == GetObjFromHash(files, Mem(b), b, key_hash, FALSE)
        e == backend_init(backend[b], config[b])
    IN  IF IsKeyInvalidError(r.outcome) /\ e /= ""
        THEN /\ files' = r.fs
             /\ cache' = [cache EXCEPT ![cacheRef[b]] = r.mem]
             /\ last' = [Call("set", b, key, value) EXCEPT
                            !.exc = e, !.cause = e]
             /\ UNCHANGED <<ext, config, now, cacheRef, kind, backend,
                            lifetime, hist>>
        ELSE Set(b, key, value)

\* What a load raises while msgpack is missing: NameError where the module
\* was never imported, TypeError from MessagePackBackend.__init__ where only
\* the flag is off.
MissingMsgpackErrors == {"NameError", "TypeError"}

\* Bucket.__getitem__ of a Bucket with any config: from_file checks the
\* config before it reads, and needs msgpack for a msgpack file.
GetCfg(b, key, e) ==
    LET key_hash == hash_for_key(b, key)
        file_path == path_for_hash(b, key_hash)
        c == valid_config(backend[b], config[b])
        x == IF c /= "" THEN c
             ELSE IF backend[b] = "MessagePackBackend" /\ ~msgpack_available
             THEN e ELSE ""
    IN  IF key_hash \notin DOMAIN Mem(b) /\ file_path \in DOMAIN files /\ x /= ""
        THEN /\ last' = [Call("get", b, key, 0) EXCEPT
                            !.exc = x, !.cause = x, !.src = "file"]
             /\ UNCHANGED <<ext, config, now, files, cache, cacheRef, kind,
                            backend, lifetime, hist>>
        ELSE Get(b, key)

\* Mutant of SetLifetime: the assignment applies the new lifetime at once and
\* drops from memory every entry that expires later than one written now.
SetLifetime_Eager(b, value) ==
    /\ lifetime' = [lifetime EXCEPT ![b] = lifetime_setter(value)]
    /\ cache' = [cache EXCEPT ![cacheRef[b]] =
                    [h \in {x \in DOMAIN Mem(b) :
                                \/ lifetime_setter(value) = None
                                \/ /\ Mem(b)[x].expiration_date /= None
                                   /\ Mem(b)[x].expiration_date[1]
                                        <= now + lifetime_setter(value)[1]}
                        |-> Mem(b)[h]]]
    /\ last' = [Call("set_lifetime", b, "", Seconds(lifetime_setter(value)))
                    EXCEPT !.ret = Seconds(lifetime[b])]
    /\ UNCHANGED <<ext, config, now, files, cacheRef, kind, backend, hist>>

\* bucket.lifetime = value; last holds the lifetime stored (arg) and the one
\* it replaced (ret), in seconds.
SetLifetime(b, value) ==
    /\ lifetime' = [lifetime EXCEPT ![b] = lifetime_setter(value)]
    /\ last' = [Call("set_lifetime", b, "", Seconds(lifetime_setter(value)))
                    EXCEPT !.ret = Seconds(lifetime[b])]
    /\ UNCHANGED <<ext, config, now, files, cache, cacheRef, kind, backend, hist>>

\* The clock advances between calls.
Tick ==
    /\ now < MaxTime
    /\ now' = now + 1
    /\ last' = Call("tick", "", "", 0)
    /\ UNCHANGED <<ext, config, files, cache, cacheRef, kind, backend, lifetime, hist>>

(* ---- memoization: the decorator returned by Bucket.__call__ ---- *)
\* inspect.getfullargspec of the decorated functions: f(a), f(a, m),
\* f(a, *args), f(a, **kwargs) and the method f(self, a).
Argspec(args, varargs, varkw) ==
    [args |-> args, varargs |-> varargs, varkw |-> varkw]

\* The objects a call may pass for a parameter: instances for self, lists for
\* a, flags for m.
InstIds == {1, 2}
ArgLists == {<<1>>}
Flags == {0, 1}
ParamValues(name) ==
    CASE name = "self" -> InstIds
      [] name = "a" -> ArgLists
      [] OTHER -> Flags

\* What a call may pass beyond the named parameters.
ExtraArgs == {<<>>, <<7>>}
ExtraKwargs == {EmptyDict, [n \in {"x"} |-> 7]}

Range(s) == {s[j] : j \in DOMAIN s}

\* The calls f(*args, **kwargs) Python accepts for an argspec: the first p
\* parameters are passed by position and the others by keyword; further
\* positional arguments need *args and further keywords need **kwargs.
RawCalls(argspec, method) ==
    LET names == argspec.args
        N == Len(names)
        Bindings == {[x \in Range(names) |->
                        CASE x = "self" -> i [] x = "a" -> a [] OTHER -> m] :
                     i \in ParamValues("self"), a \in ParamValues("a"),
                     m \in ParamValues("m")}
        Extras(p) == IF argspec.varargs /= None /\ p = N
                     THEN ExtraArgs ELSE {<<>>}
        Keywords == IF argspec.varkw /= None THEN ExtraKwargs ELSE {EmptyDict}
        Positions == IF method THEN 1..N ELSE 0..N
    IN  UNION {{[args |-> [j \in 1..p |-> bnd[names[j]]] \o extra,
                 kwargs |-> [x \in {names[j] : j \in (p+1)..N} \cup DOMAIN kw |->
                                IF x \in DOMAIN kw THEN kw[x] ELSE bnd[x]]] :
                    bnd \in Bindings, extra \in Extras(p), kw \in Keywords} :
               p \in Positions}

\* inspect.getcallargs: the value bound to every name of the argspec.
getcallargs(argspec, c) ==
    LET names == argspec.args
        N == Len(names)
        named == [x \in Range(names) |->
                    LET j == CHOOSE j \in 1..N : names[j] = x
                    IN  IF j <= Len(c.args) THEN c.args[j] ELSE c.kwargs[x]]
        star == IF argspec.varargs = None THEN EmptyDict
                ELSE [x \in {argspec.varargs[1]} |->
                        SubSeq(c.args, N + 1, Len(c.args))]
        starstar == IF argspec.varkw = None THEN EmptyDict
                    ELSE [x \in {argspec.varkw[1]} |->
                            [y \in DOMAIN c.kwargs \ Range(names) |-> c.kwargs[y]]]
    IN  [x \in DOMAIN named \cup DOMAIN star \cup DOMAIN starstar |->
            IF x \in DOMAIN named THEN named[x]
            ELSE IF x \in DOMAIN star THEN star[x] ELSE starstar[x]]

\* Mutant of normalize_args: the arguments are kept in the form of the call,
\* positional ones in varargs and keyword ones in normargs.
normalize_args_AsPassed(argspec, c) ==
    [varargs |-> c.args, normargs |-> c.kwargs,
     callargs |-> getcallargs(argspec, c)]

\* normalize_args, lines 247-261, on the result of getcallargs: the call's
\* arguments in keyword form plus the varargs.
normalized(argspec, original_callargs) ==
    LET kwargs == IF argspec.varkw /= None
                  THEN original_callargs[argspec.varkw[1]] ELSE EmptyDict
        popped == Range(argspec.varkw) \cup Range(argspec.varargs)
    IN  [varargs |-> IF argspec.varargs /= None
                     THEN original_callargs[argspec.varargs[1]] ELSE <<>>,
         normargs |-> DictUpdate([x \in DOMAIN original_callargs \ popped |->
                                    original_callargs[x]], kwargs),
         callargs |-> original_callargs]

\* normalize_args
normalize_args(argspec, c) == normalized(argspec, getcallargs(argspec, c))

\* The accessors an instance's class may define besides __dict__.
Accessors == {"_getsate_bucketcache_", "__getstate__"}

\* Mutant of get_instance_signature: the signature is the instance itself.
get_instance_signature_Identity(provides, instance, state) ==
    [from |-> "id", state |-> instance]

\* get_instance_signature: the state of an instance, taken from the first of
\* _getsate_bucketcache_(), __getstate__() and __dict__ its class provides.
\* state is the value of the instance's attribute; the accessors return it in
\* a new object, __dict__ is the instance's own dictionary.
get_instance_signature(provides, instance, state) ==
    IF "_getsate_bucketcache_" \in provides
        THEN [from |-> "_getsate_bucketcache_", state |-> state]
    ELSE IF "__getstate__" \in provides
        THEN [from |-> "__getstate__", state |-> state]
    ELSE [from |-> "__dict__", state |-> state]

\* Mutant of signature_from: the function object itself is part of fsig.
signature_from_WithFunction(d, n, sig_instance) ==
    LET argspec == d.argspec
        dropped == Range(d.nocache)
                    \cup (d.ignore \ (Range(argspec.varargs) \cup Range(argspec.varkw)))
                    \cup (IF argspec.varkw /= None /\ argspec.varkw[1] \in d.ignore
                          THEN DOMAIN n.callargs[argspec.varkw[1]] ELSE {})
                    \cup (IF d.method THEN {argspec.args[1]} ELSE {})
    IN  [instance |-> sig_instance,
         fsig |-> <<d.name, argspec, d.fn>>,
         varargs |-> IF argspec.varargs /= None /\ argspec.varargs[1] \in d.ignore
                     THEN <<>> ELSE n.varargs,
         normargs |-> [x \in DOMAIN n.normargs \ dropped |-> n.normargs[x]]]

\* Mutant of signature_from: an ignored parameter, *args or **kwargs stays in
\* the signature.
signature_from_KeepIgnored(d, n, sig_instance) ==
    LET dropped == Range(d.nocache)
                    \cup (IF d.method THEN {d.argspec.args[1]} ELSE {})
    IN  [instance |-> sig_instance,
         fsig |-> <<d.name, d.argspec>>,
         varargs |-> n.varargs,
         normargs |-> [x \in DOMAIN n.normargs \ dropped |-> n.normargs[x]]]

\* wrapper, lines 147-172: the signature made of the normalized arguments n
\* and the instance's signature.  d is the DecoratorFactory.
signature_from(d, n, sig_instance) ==
    LET argspec == d.argspec
        dropped == Range(d.nocache)
                    \cup (d.ignore \ (Range(argspec.varargs) \cup Range(argspec.varkw)))
                    \cup (IF argspec.varkw /= None /\ argspec.varkw[1] \in d.ignore
                          THEN DOMAIN n.callargs[argspec.varkw[1]] ELSE {})
                    \cup (IF d.method THEN {argspec.args[1]} ELSE {})
    IN  [instance |-> sig_instance,
         fsig |-> <<d.name, argspec>>,
         varargs |-> IF argspec.varargs /= None /\ argspec.varargs[1] \in d.ignore
                     THEN <<>> ELSE n.varargs,
         normargs |-> [x \in DOMAIN n.normargs \ dropped |-> n.normargs[x]]]

\* wrapper, lines 145-172: the signature the key of call c is made from; st is
\* the state of each instance.
wrapper_signature(d, c, st) ==
    signature_from(d, normalize_args(d.argspec, c),
                   IF d.method
                   THEN Some(get_instance_signature(d.provides, c.args[1],
                                                    st[c.args[1]]))
                   ELSE None)

\* What the body of the wrapped function may do to its inputs: nothing, append
\* to the list passed as a, or assign the instance's attribute.
Mutations == {"none", "arg", "state"}

\* The signature object after the body ran: it holds the caller's list and,
\* when the state came from __dict__, the instance's own dictionary, so it
\* shows what the body did to them.
signature_after(sig, mutate) ==
    IF mutate = "arg" /\ "a" \in DOMAIN sig.normargs
        THEN [sig EXCEPT !.normargs = [sig.normargs EXCEPT !["a"] = Append(@, 0)]]
    ELSE IF mutate = "state" /\ sig.instance /= None
                /\ sig.instance[1].from = "__dict__"
        THEN [sig EXCEPT !.instance =
                Some([sig.instance[1] EXCEPT !.state = 1 - @])]
    ELSE sig

\* The DecoratorFactory of one decorated function (DecoratorFactory.__init__
\* and decorate): its options and the function's name and argspec.  provides
\* is what the class of a decorated method defines, fn tells the function
\* object apart from others of the same name and argspec.
Decorator(name, argspec, method, provides, nocache, ignore) ==
    [name |-> name, argspec |-> argspec, method |-> method,
     provides |-> provides, nocache |-> nocache, ignore |-> ignore,
     callback |-> FALSE, fn |-> 1]

\* The decorated functions of the tests: a plain function, one with a nocache
\* parameter, ones whose extra parameter, *args or **kwargs is or is not
\* ignored, and a method of a class with each choice of accessors.
Decorated ==
    {Decorator("f", Argspec(<<"a">>, None, None), FALSE, {}, None, {})}
    \cup {Decorator("f", Argspec(<<"a", "m">>, None, None), FALSE, {}, nc, ig) :
            <<nc, ig>> \in {<<None, {}>>, <<Some("m"), {}>>, <<None, {"m"}>>}}
    \cup {Decorator("f", Argspec(<<"a">>, Some("args"), None), FALSE, {}, None, ig) :
            ig \in {{}, {"args"}}}
    \cup {Decorator("f", Argspec(<<"a">>, None, Some("kwargs")), FALSE, {}, None, ig) :
            ig \in {{}, {"kwargs"}}}
    \cup {Decorator("f", Argspec(<<"self", "a">>, None, None), TRUE, p, None, {}) :
            p \in SUBSET Accessors}

\* The record of the last wrapped call: the value bound to each parameter,
\* the key hash before and after load_or_call, whether the body was invoked,
\* the callback calls made, and the value returned or the exception raised.
\* NoCall: no wrapped call was made yet.
NoCall ==
    [op |-> "none", callargs |-> EmptyDict, key_hash |-> None,
     post_key_hash |-> None, invoked |-> FALSE, fired |-> <<>>, ret |-> 0,
     exc |-> ""]

\* The result of load_or_call: whether the body was called, the exception
\* that left it, the result, the callback calls made, and the directory and
\* memory index it leaves.
Loaded(called, exc, result, fired, fs, mem) ==
    [called |-> called, exc |-> exc, result |-> result, fired |-> fired,
     fs |-> fs, mem |-> mem]

\* call_and_cache, lines 116-118, after the body returned res: u is the
\* result of _update_or_make_obj_with_hash.
call_and_cache_set(b, key_hash, res, u) ==
    IF u.exc /= ""
    THEN Loaded(TRUE, u.exc, 0, <<>>, u.fs, u.mem)
    ELSE Loaded(TRUE, "", res, <<>>,
                set_obj_with_hash(u.fs, u.mem, b, key_hash, u.obj).fs,
                set_obj_with_hash(u.fs, u.mem, b, key_hash, u.obj).mem)

\* call_and_cache: the body is invoked and returns res, which is stored.
call_and_cache(fs, mem, b, key_hash, res) ==
    call_and_cache_set(b, key_hash, res,
                       update_or_make_obj_with_hash(fs, mem, b, key_hash, res))

\* Mutant of callback_calls: the callback fires whether or not the result
\* came from the cache.
callback_calls_Always(d, n, called, result, obj) ==
    IF d.callback
    THEN <<[instance |-> IF d.method THEN Some(n.callargs[d.argspec.args[1]])
                         ELSE None,
            callinfo |-> [varargs |-> n.varargs, callargs |-> n.callargs,
                          return_value |-> result,
                          expiration_date |-> obj.expiration_date]]>>
    ELSE <<>>

\* load_or_call, lines 131-140: the calls of the callback and their
\* arguments, the instance first for a method.
callback_calls(d, n, called, result, obj) ==
    IF ~called /\ d.callback
    THEN <<[instance |-> IF d.method THEN Some(n.callargs[d.argspec.args[1]])
                         ELSE None,
            callinfo |-> [varargs |-> n.varargs, callargs |-> n.callargs,
                          return_value |-> result,
                          expiration_date |-> obj.expiration_date]]>>
    ELSE <<>>

\* Mutant of skip_cache: the nocache parameter is not looked at.
skip_cache_Never(d, n) == FALSE

\* load_or_call, lines 109-111
skip_cache(d, n) == d.nocache /= None /\ n.callargs[d.nocache[1]] /= 0

\* load_or_call, lines 120-142; g is the result of _get_obj_from_hash and r
\* the result of call_and_cache, each used on the path that calls it.
load_or_call_paths(d, n, res, g, r) ==
    IF g.outcome = "ok"
        THEN Loaded(FALSE, "", g.obj.value,
                    callback_calls(d, n, FALSE, g.obj.value, g.obj), g.fs, g.mem)
    ELSE IF IsKeyInvalidError(g.outcome)
        THEN [r EXCEPT !.fired = callback_calls(d, n, TRUE, res, Backend(res))]
    ELSE Loaded(FALSE, g.outcome, 0, <<>>, g.fs, g.mem)

\* load_or_call without skip_cache: the entry is looked up first.
load_or_call_get(fs, mem, b, d, n, key_hash, res, g) ==
    load_or_call_paths(d, n, res, g,
                       call_and_cache(g.fs, g.mem, b, key_hash, res))

\* load_or_call: res is what the body returns if it is invoked.
load_or_call(fs, mem, b, d, n, key_hash, res) ==
    IF skip_cache(d, n)
    THEN [call_and_cache(fs, mem, b, key_hash, res) EXCEPT
            !.fired = callback_calls(d, n, TRUE, res, Backend(res))]
    ELSE load_or_call_get(fs, mem, b, d, n, key_hash, res,
                          GetObjFromHash(fs, mem, b, key_hash, TRUE))

\* Mutant of mutation_error: the hashes are not compared.
mutation_error_NoCheck(called, key_hash, post_key_hash) == ""

\* wrapper, lines 179-187: the error raised when the hash recomputed after
\* the body was invoked differs from the pre-call hash.
mutation_error(called, key_hash, post_key_hash) ==
    IF called /\ key_hash /= post_key_hash THEN "ValueError" ELSE ""

\* wrapper, lines 177-189: the record of the call given the result r of
\* load_or_call.
wrapper_return(n, key_hash, post_key_hash, r) ==
    [op |-> "call", callargs |-> n.callargs, key_hash |-> Some(key_hash),
     post_key_hash |-> IF r.called /\ r.exc = "" THEN Some(post_key_hash)
                       ELSE None,
     invoked |-> r.called, fired |-> r.fired,
     ret |-> IF r.exc = ""
                  /\ mutation_error(r.called, key_hash, post_key_hash) = ""
             THEN r.result ELSE 0,
     exc |-> IF r.exc /= "" THEN r.exc
             ELSE mutation_error(r.called, key_hash, post_key_hash)]

\* wrapper once the key hashes are known.
wrapper_hashed(b, d, n, key_hash, post_key_hash, r) ==
    [fs |-> r.fs, mem |-> r.mem, called |-> r.called,
     call |-> wrapper_return(n, key_hash, post_key_hash, r)]

\* wrapper once the arguments are normalized and the signature is made.
wrapper_signed(fs, mem, b, d, n, key_hash, post_key_hash, res) ==
    wrapper_hashed(b, d, n, key_hash, post_key_hash,
                   load_or_call(fs, mem, b, d, n, key_hash, res))

\* wrapper: the call c of the function wrapped by d through bucket b.  res is
\* what the body returns if it is invoked and mutate what it does to its
\* inputs.
wrapper(fs, mem, b, d, c, st, res, mutate) ==
    wrapper_signed(fs, mem, b, d, normalize_args(d.argspec, c),
                   hash_for_key(b, wrapper_signature(d, c, st)),
                   hash_for_key(b, signature_after(wrapper_signature(d, c, st),
                                                   mutate)),
                   res)

\* The state a wrapped call leaves, w being the result of wrapper.
MemoStep(b, c, mutate, w) ==
    /\ files' = w.fs
    /\ cache' = [cache EXCEPT ![cacheRef[b]] = w.mem]
    /\ call' = w.call
    /\ inst' = IF w.called /\ mutate = "state"
               THEN [inst EXCEPT ![c.args[1]] = 1 - @] ELSE inst

\* A call of the wrapped function.
MemoCall(b, c, res, mutate) ==
    /\ mutate = "state" => deco.method
    /\ MemoStep(b, c, mutate,
                wrapper(files, Mem(b), b, deco, c, inst, res, mutate))
    /\ last' = Call("call", b, "", 0)
    /\ UNCHANGED <<msgpack_available, made, trip, deco, config, now, cacheRef, kind,
                   backend, lifetime, hist>>

\* DecoratorFactory.add_callback: @f.callback registers the callback.
AddCallback ==
    /\ ~deco.callback
    /\ deco' = [deco EXCEPT !.callback = TRUE]
    /\ last' = Call("add_callback", "", "", 0)
    /\ UNCHANGED <<msgpack_available, made, trip, inst, call, config, now, files, cache,
                   cacheRef, kind, backend, lifetime, hist>>

\* The program assigns the attribute of an instance between calls.
ChangeState(i) ==
    /\ deco.method
    /\ inst' = [inst EXCEPT ![i] = 1 - @]
    /\ last' = Call("setattr", "", "", 0)
    /\ UNCHANGED <<msgpack_available, made, trip, deco, call, config, now, files, cache,
                   cacheRef, kind, backend, lifetime, hist>>

\* A different function object with the same name and argspec is wrapped:
\* by the same Bucket, or (fresh) by a new Bucket made over the same
\* directory with the same backend and lifetime, whose memory index is empty.
\* The new DecoratorFactory has no callback yet.
Rewrap(b, fresh) ==
    /\ deco' = [deco EXCEPT !.fn = 3 - @, !.callback = FALSE]
    /\ cache' = IF fresh THEN [cache EXCEPT ![cacheRef[b]] = EmptyDict]
                ELSE cache
    /\ last' = Call("wrap", b, "", IF fresh THEN 1 ELSE 0)
    /\ UNCHANGED <<msgpack_available, made, trip, inst, call, config, now,
                   files, cacheRef, kind, backend, lifetime, hist>>

(* ---- key makers ---- *)
\* The names a dict key or an attribute may have, in sorted order.
AttrNames == <<"a", "b">>

\* The dicts used as keys or as the state of an object.
KeyDicts ==
    UNION {[S -> 1..MaxVal] : S \in SUBSET Range(AttrNames)}

\* The objects passed as keys: strings, integers, lists, dicts, and objects
\* of a class with a __dict__ and with or without __getstate__.
KeyObjects ==
    {[t |-> "str", s |-> "k1"]}
    \cup {[t |-> "int", i |-> i] : i \in 1..MaxVal}
    \cup {[t |-> "list", l |-> l] :
            l \in {<<>>} \cup {<<i>> : i \in 1..MaxVal}
                    \cup {<<i, j>> : i, j \in 1..MaxVal}}
    \cup {[t |-> "dict", d |-> d] : d \in KeyDicts}
    \cup {[t |-> "object", d |-> d, getstate |-> g] :
            d \in KeyDicts, g \in BOOLEAN}

\* The orders in which a dict may hand out its keys.
IterOrders ==
    {o \in [1..Len(AttrNames) -> Range(AttrNames)] :
        Range(o) = Range(AttrNames)}

\* The elements of sequence s that are in set S, in the order of s.
RECURSIVE Filter(_, _)
Filter(s, S) ==
    IF s = <<>> THEN <<>>
    ELSE (IF Head(s) \in S THEN <<Head(s)>> ELSE <<>>) \o Filter(Tail(s), S)

\* The text of each item separated by ", ".
RECURSIVE Join(_)
Join(items) ==
    IF items = <<>> THEN <<>>
    ELSE IF Len(items) = 1 THEN Head(items)
    ELSE Head(items) \o <<", ">> \o Join(Tail(items))

\* Mutant of dict_items: the keys are written in the order the dict hands
\* them out.
dict_items_Unsorted(d, order, sort_keys) == Filter(order, DOMAIN d)

\* json's encoder: the keys of a dict in the order they are written, sorted
\* when sort_keys is set and in the dict's own order otherwise.
dict_items(d, order, sort_keys) ==
    IF sort_keys THEN Filter(AttrNames, DOMAIN d) ELSE Filter(order, DOMAIN d)

\* json's encoding of a dict, as the sequence of its characters.
encode_dict(d, order, sort_keys) ==
    LET names == dict_items(d, order, sort_keys)
    IN  <<"{">>
        \o Join([j \in 1..Len(names) |->
                    <<"\"", names[j], "\"", ": ", ToString(d[names[j]])>>])
        \o <<"}">>

\* json.dumps(obj, sort_keys=..., cls=_AnyObjectJSONEncoder): an object that
\* json cannot encode is replaced by _AnyObjectJSONEncoder.default, which
\* returns __getstate__() if the class has it and __dict__ otherwise.
json_dumps_key(obj, order, sort_keys) ==
    CASE obj.t = "str" -> <<"\"", obj.s, "\"">>
      [] obj.t = "int" -> <<ToString(obj.i)>>
      [] obj.t = "list" ->
            <<"[">> \o Join([j \in 1..Len(obj.l) |-> <<ToString(obj.l[j])>>])
                \o <<"]">>
      [] obj.t = "dict" -> encode_dict(obj.d, order, sort_keys)
      [] OTHER ->
            IF obj.getstate THEN <<"\"", "getstate", "\"">>
            ELSE encode_dict(obj.d, order, sort_keys)

\* f.read(65536): the number of characters read at a time, scaled down.
ChunkSize == 2

\* iter(partial(f.read, 65536), ''): the text in pieces of ChunkSize.
RECURSIVE Chunks(_)
Chunks(text) ==
    IF text = <<>> THEN <<>>
    ELSE IF Len(text) <= ChunkSize THEN <<text>>
    ELSE <<SubSeq(text, 1, ChunkSize)>>
            \o Chunks(SubSeq(text, ChunkSize + 1, Len(text)))

KeyMakers == {"DefaultKeyMaker", "StreamingDefaultKeyMaker"}

\* <KeyMaker>.make_key: the batches of bytes yielded for obj.  Both key
\* makers are constructed with sort_keys=True.
make_key(keymaker, obj, order) ==
    IF keymaker = "DefaultKeyMaker"
    THEN <<json_dumps_key(obj, order, TRUE)>>
    ELSE Chunks(json_dumps_key(obj, order, TRUE))

\* The bytes of all batches, one after the other.
RECURSIVE Concat(_)
Concat(batches) ==
    IF batches = <<>> THEN <<>> ELSE Head(batches) \o Concat(Tail(batches))

\* Bucket._hash_for_key, lines 400-406: md5 over the backend's name and then
\* every batch; the digest stands for the bytes it was fed.
md5_hexdigest(be, batches) == <<be>> \o Concat(batches)

\* One call of make_key and _hash_for_key with a key maker; order is the
\* order in which the dicts of the key hand out their keys in this call.
MakeKey(keymaker, order) ==
    /\ made /= None
    /\ made' = [made EXCEPT
                  !.out[keymaker] = Some(make_key(keymaker, made.key, order)),
                  !.hash[keymaker] =
                      Some(md5_hexdigest(backend["A"],
                                         make_key(keymaker, made.key, order)))]
    /\ last' = Call("make_key", "A", "", 0)
    /\ UNCHANGED <<msgpack_available, trip, deco, inst, call, config, now,
                   files, cache, cacheRef, kind, backend, lifetime, hist>>

(* ---- an entry written to a file and loaded back ---- *)
\* Backend.__init__ with an expiration date: the entries a backend can hold.
Entries ==
    {[value |-> v, expiration_date |-> e] :
        v \in Values, e \in {None} \cup {Some(t) : t \in Times}}

\* obj.dump(fp) on a new file of the Bucket's backend.
Dump ==
    /\ trip /= None
    /\ trip' = [trip EXCEPT !.file = Some(dump(backend["A"], trip.obj)),
                            !.loaded = None]
    /\ last' = Call("dump", "A", "", 0)
    /\ UNCHANGED <<msgpack_available, made, deco, inst, call, config, now,
                   files, cache, cacheRef, kind, backend, lifetime, hist>>

\* backend.from_file(fp) on the file dump wrote.
FromFile ==
    /\ trip /= None
    /\ trip.file /= None
    /\ trip' = [trip EXCEPT
                  !.loaded = Some(from_file(backend["A"], trip.file[1]))]
    /\ last' = Call("from_file", "A", "", 0)
    /\ UNCHANGED <<msgpack_available, made, deco, inst, call, config, now,
                   files, cache, cacheRef, kind, backend, lifetime, hist>>

(* ---- a set whose value the backend cannot encode ---- *)
\* A value on which pickle.dump, json.dump and msgpack.pack raise TypeError.
Unencodable == 0

\* Bucket._set_obj_with_hash when obj.dump raises: open() in write mode has
\* emptied the file, dump raises before the whole entry is written, and
\* self._cache is not assigned.
set_obj_with_hash_failing(fs, mem, b, key_hash) ==
    [fs |-> IF kind[b] = "DeferredWriteBucket"
            THEN fs
            ELSE DictSet(fs, path_for_hash(b, key_hash), Truncated(backend[b])),
     mem |-> mem]

\* Bucket.__setitem__ with a value the backend cannot encode:
\* _update_or_make_obj_with_hash assigns the value to the object found in
\* memory, or makes a new object, before _set_obj_with_hash opens the file.
SetUnencodable(b, key) ==
    LET key_hash == hash_for_key(b, key)
        u == update_or_make_obj_with_hash(files, Mem(b), b, key_hash, Unencodable)
        s == set_obj_with_hash_failing(u.fs, u.mem, b, key_hash)
    IN  /\ files' = IF u.exc /= "" THEN u.fs ELSE s.fs
        /\ cache' = [cache EXCEPT ![cacheRef[b]] = IF u.exc /= "" THEN u.mem ELSE s.mem]
        /\ last' = [Call("set", b, key, Unencodable) EXCEPT
                       !.exc = IF u.exc /= "" THEN u.exc
                               ELSE IF kind[b] = "DeferredWriteBucket" THEN ""
                               ELSE "TypeError",
                       !.cause = u.cause]
        /\ UNCHANGED <<ext, config, now, cacheRef, kind, backend, lifetime, hist>>

(* ---- specifications ---- *)
\* Directories a Bucket may be constructed over: each key's file is either
\* missing or a truncated file left behind by an interrupted write.
InitDirs(be) ==
    LET P(k) == <<(<<be, k>>), file_extension(be)>>
    IN  {[p \in {P(k) : k \in K} |-> Truncated(be)] : K \in SUBSET Keys}

\* msgpack is installed and no function is wrapped.
InitExt ==
    /\ msgpack_available = TRUE
    /\ made = None
    /\ trip = None
    /\ deco = None
    /\ inst = None
    /\ call = None

\* Bucket.__init__
InitCommon ==
    /\ now = 0
    /\ cacheRef = [b \in BucketIds |-> b]
    /\ cache = [b \in BucketIds |-> EmptyDict]
    /\ backend \in [BucketIds -> BackendNames]
    /\ files \in InitDirs(backend["A"])
    /\ lifetime \in [BucketIds -> {None} \cup Lifetimes]
    /\ last = Call("init", "", "", 0)
    /\ hist = [k \in Keys |-> None]
    /\ config = [b \in BucketIds |-> None]
    /\ InitExt

\* One Bucket; its lifetime may be reassigned.
Init ==
    /\ InitCommon
    /\ kind = [b \in BucketIds |-> "Bucket"]

Next ==
    \/ \E b \in BucketIds, k \in Keys, v \in Values : Set(b, k, v)
    \/ \E b \in BucketIds, k \in Keys : Get(b, k)
    \/ \E b \in BucketIds, k \in Keys : Contains(b, k)
    \/ \E b \in BucketIds, k \in Keys : Delete(b, k)
    \/ \E b \in BucketIds, k \in Keys : UnloadKey(b, k)
    \/ \E b \in BucketIds : PruneDirectory(b)
    \/ \E b \in BucketIds, l \in {None, Some(0)} \cup Lifetimes : SetLifetime(b, l)
    \/ Tick

Spec == Init /\ [][Next]_vars

\* One Bucket or DeferredWriteBucket whose lifetime is never reassigned.
InitFixed ==
    /\ InitCommon
    /\ kind \in [BucketIds -> {"Bucket", "DeferredWriteBucket"}]

NextFixed ==
    \/ \E b \in BucketIds, k \in Keys, v \in Values : Set(b, k, v)
    \/ \E b \in BucketIds, k \in Keys : Get(b, k)
    \/ \E b \in BucketIds, k \in Keys : Contains(b, k)
    \/ \E b \in BucketIds, k \in Keys : Delete(b, k)
    \/ \E b \in BucketIds, k \in Keys : UnloadKey(b, k)
    \/ \E b \in BucketIds : PruneDirectory(b)
    \/ \E b \in BucketIds : Sync(b)
    \/ Tick

SpecFixed == InitFixed /\ [][NextFixed]_vars


\* One non-deferred Bucket whose loads may fail for reasons other than a
\* missing or undecodable file.
NextFault ==
    \/ \E b \in BucketIds, k \in Keys, v \in Values : Set(b, k, v)
    \/ \E b \in BucketIds, k \in Keys, f \in Faults : GetFault(b, k, f)
    \/ \E b \in BucketIds, k \in Keys : Delete(b, k)
    \/ \E b \in BucketIds, k \in Keys : UnloadKey(b, k)
    \/ Tick

SpecFault == Init /\ [][NextFault]_vars

\* One non-deferred JSON Bucket constructed over a directory that earlier runs
\* left behind: each of three keys has no file, a truncated file, or an entry
\* written at time 0 without lifetime or with one of the lifetimes; a file of
\* the pickle backend lies in the same directory.
PruneKeys == {"k1", "k2", "k3"}

PruneDirs ==
    LET P(k) == <<(<<"JSONBackend", k>>), file_extension("JSONBackend")>>
        other == <<(<<"PickleBackend", "k1">>), file_extension("PickleBackend")>>
        Contents ==
            {Truncated("JSONBackend")}
                \cup {dump("JSONBackend",
                           [value |-> 1, expiration_date |-> e]) :
                        e \in {None} \cup Lifetimes}
    IN  {[p \in {P(k) : k \in K} \cup {other} |->
            IF p = other THEN dump("PickleBackend", Backend(1)) ELSE c[p[1][2]]]
         : K \in SUBSET PruneKeys, c \in [PruneKeys -> Contents]}

InitPrune ==
    /\ now = 0
    /\ cacheRef = [b \in BucketIds |-> b]
    /\ cache = [b \in BucketIds |-> EmptyDict]
    /\ kind = [b \in BucketIds |-> "Bucket"]
    /\ backend = [b \in BucketIds |-> "JSONBackend"]
    /\ files \in PruneDirs
    /\ lifetime \in [BucketIds -> {None} \cup Lifetimes]
    /\ last = Call("init", "", "", 0)
    /\ hist = [k \in Keys |-> None]
    /\ config = [b \in BucketIds |-> None]
    /\ InitExt

NextPrune ==
    \/ \E b \in BucketIds, k \in PruneKeys : Get(b, k)
    \/ \E b \in BucketIds, k \in PruneKeys : UnloadKey(b, k)
    \/ \E b \in BucketIds : PruneDirectory(b)
    \/ Tick

SpecPrune == InitPrune /\ [][NextPrune]_vars

\* Two non-deferred Buckets constructed over one directory with the same
\* backend (JSON), each with its own memory index and its own lifetime.
SharedIds == {"A", "B"}

InitShared ==
    /\ now = 0
    /\ cacheRef = [b \in SharedIds |-> b]
    /\ cache = [b \in SharedIds |-> EmptyDict]
    /\ kind = [b \in SharedIds |-> "Bucket"]
    /\ backend = [b \in SharedIds |-> "JSONBackend"]
    /\ files \in InitDirs("JSONBackend")
    /\ lifetime \in [SharedIds -> {None} \cup Lifetimes]
    /\ last = Call("init", "", "", 0)
    /\ hist = [k \in Keys |-> None]
    /\ config = [b \in SharedIds |-> None]
    /\ InitExt

NextShared ==
    \/ \E b \in SharedIds, k \in Keys, v \in Values : Set(b, k, v)
    \/ \E b \in SharedIds, k \in Keys : Get(b, k)
    \/ \E b \in SharedIds, k \in Keys : Delete(b, k)
    \/ \E b \in SharedIds, k \in Keys : UnloadKey(b, k)
    \/ \E b \in SharedIds : PruneDirectory(b)
    \/ Tick

SpecShared == InitShared /\ [][NextShared]_vars

\* One non-deferred JSON Bucket "A" and the deferred_write scopes opened on it.
\* While a scope is open its view "D" is used next to "A"; the view is gone
\* when the scope has closed.
NextScope ==
    \/ \E b \in DOMAIN kind, k \in Keys, v \in Values : Set(b, k, v)
    \/ \E b \in DOMAIN kind, k \in Keys : Get(b, k)
    \/ \E b \in DOMAIN kind, k \in Keys : Delete(b, k)
    \/ \E b \in DOMAIN kind, k \in Keys : UnloadKey(b, k)
    \/ \E b \in DOMAIN kind : Sync(b)
    \/ \E b \in DOMAIN kind : EnterScope(b)
    \/ \E b \in DOMAIN kind : ExitScope(b)
    \/ \E b \in DOMAIN kind : ExitScopeRaise(b)
    \/ Tick

InitScope ==
    /\ Init
    /\ backend = [b \in BucketIds |-> "JSONBackend"]

SpecScope == InitScope /\ [][NextScope]_vars

\* Buckets are constructed with any arguments over a directory earlier runs
\* may have left files in, used and given new lifetimes, all at one instant.
InitCtor ==
    /\ now = 0
    /\ kind = EmptyDict
    /\ backend = EmptyDict
    /\ config = EmptyDict
    /\ lifetime = EmptyDict
    /\ cacheRef = EmptyDict
    /\ cache = EmptyDict
    /\ files \in UNION {InitDirs(be) : be \in BackendNames}
    /\ last = Call("start", "", "", 0)
    /\ hist = [k \in Keys |-> None]
    /\ msgpack_available \in BOOLEAN
    /\ made = None
    /\ trip = None
    /\ deco = None
    /\ inst = None
    /\ call = None

NextCtor ==
    \/ \E b \in BucketIds, be \in BackendArgs,
          cfg \in {None} \cup {Some(c) : c \in ConfigNames},
          lt \in LifetimeArgs, kwargs \in KwargSets :
            Construct(b, be, cfg, lt, kwargs)
    \/ \E b \in DOMAIN kind, value \in LifetimeArgs : AssignLifetime(b, value)
    \/ \E b \in DOMAIN kind, k \in Keys : SetCfg(b, k, 1)
    \/ \E b \in DOMAIN kind, k \in Keys, e \in MissingMsgpackErrors :
            GetCfg(b, k, e)

SpecCtor == InitCtor /\ [][NextCtor]_vars

\* The lifetimes the Bucket wrapping a function is given: entries expire for
\* the plain function and the one with a nocache parameter.
MemoLifetimes(d) ==
    IF ~d.method /\ d.ignore = {} /\ d.argspec.varargs = None
            /\ d.argspec.varkw = None /\ (d.nocache /= None \/ Len(d.argspec.args) = 1)
    THEN {None, Some(1)}
    ELSE {None}

\* One function is wrapped by a Bucket over an empty directory and called
\* while time passes; without a lifetime the time of day does not matter.
InitMemo ==
    /\ kind = [b \in BucketIds |-> "Bucket"]
    /\ backend = [b \in BucketIds |-> "JSONBackend"]
    /\ config = [b \in BucketIds |-> None]
    /\ cacheRef = [b \in BucketIds |-> b]
    /\ cache = [b \in BucketIds |-> EmptyDict]
    /\ files = EmptyDict
    /\ last = Call("init", "", "", 0)
    /\ hist = [k \in Keys |-> None]
    /\ msgpack_available = TRUE
    /\ made = None
    /\ trip = None
    /\ deco \in Decorated
    /\ lifetime \in [BucketIds -> MemoLifetimes(deco)]
    /\ now = IF lifetime["A"] = None THEN MaxTime ELSE 0
    /\ inst = IF deco.method THEN [i \in InstIds |-> 0] ELSE EmptyDict
    /\ call = NoCall

NextMemo ==
    \/ \E b \in BucketIds, c \in RawCalls(deco.argspec, deco.method),
          res \in Values, mutate \in Mutations :
            MemoCall(b, c, res, mutate)
    \/ AddCallback
    \/ \E i \in DOMAIN inst : ChangeState(i)
    \/ Tick

SpecMemo == InitMemo /\ [][NextMemo]_vars

\* Functions f of the same name and argspec are wrapped one after the other
\* over one directory and called; the body of function object fn returns fn.
NextRewrap ==
    \/ \E b \in BucketIds, c \in RawCalls(deco.argspec, deco.method),
          mutate \in Mutations :
            MemoCall(b, c, deco.fn, mutate)
    \/ \E b \in BucketIds, fresh \in BOOLEAN : Rewrap(b, fresh)
    \/ AddCallback
    \/ \E i \in DOMAIN inst : ChangeState(i)
    \/ Tick

SpecRewrap == InitMemo /\ [][NextRewrap]_vars

\* Two Buckets with different backends over one directory.  An earlier run
\* may have left, for each backend, a file that is truncated or holds an entry
\* whose expiration date is about to pass; the clock starts late enough for
\* it to pass.
BackendPairs ==
    {<<"JSONBackend", "PickleBackend">>, <<"PickleBackend", "MessagePackBackend">>,
     <<"MessagePackBackend", "JSONBackend">>}

BackendDirs(bes) ==
    LET P(be) == <<(<<be, "k1">>), file_extension(be)>>
        Contents(be) == {Truncated(be),
                         dump(be, [value |-> 1,
                                   expiration_date |-> Some(MaxTime - 1)])}
    IN  {[p \in {P(be) : be \in S} |->
            IF p = P(bes[1]) THEN c[1] ELSE c[2]] :
         S \in SUBSET {bes[1], bes[2]},
         c \in Contents(bes[1]) \X Contents(bes[2])}

InitBackends ==
    /\ now = MaxTime - 1
    /\ cacheRef = [b \in SharedIds |-> b]
    /\ cache = [b \in SharedIds |-> EmptyDict]
    /\ kind = [b \in SharedIds |-> "Bucket"]
    /\ \E bes \in BackendPairs :
        /\ backend = [b \in SharedIds |-> IF b = "A" THEN bes[1] ELSE bes[2]]
        /\ files \in BackendDirs(bes)
    /\ lifetime = [b \in SharedIds |-> Some(1)]
    /\ last = Call("init", "", "", 0)
    /\ hist = [k \in Keys |-> None]
    /\ config = [b \in SharedIds |-> None]
    /\ InitExt

SpecBackends == InitBackends /\ [][NextShared]_vars

\* A Bucket of any backend and one key, on which the key makers are called.
InitKeys ==
    /\ now = 0
    /\ kind = [b \in BucketIds |-> "Bucket"]
    /\ backend \in [BucketIds -> BackendNames]
    /\ config = [b \in BucketIds |-> None]
    /\ lifetime = [b \in BucketIds |-> None]
    /\ cacheRef = [b \in BucketIds |-> b]
    /\ cache = [b \in BucketIds |-> EmptyDict]
    /\ files = EmptyDict
    /\ last = Call("init", "", "", 0)
    /\ hist = [k \in Keys |-> None]
    /\ msgpack_available = TRUE
    /\ made \in {[key |-> k, out |-> [m \in KeyMakers |-> None],
                  hash |-> [m \in KeyMakers |-> None]] : k \in KeyObjects}
    /\ trip = None
    /\ deco = None
    /\ inst = None
    /\ call = None

NextKeys == \E m \in KeyMakers, order \in IterOrders : MakeKey(m, order)

SpecKeys == InitKeys /\ [][NextKeys]_vars

\* An entry of any backend, of any value and expiration date, not yet dumped.
InitTrip ==
    /\ now = 0
    /\ kind = [b \in BucketIds |-> "Bucket"]
    /\ backend \in [BucketIds -> BackendNames]
    /\ config = [b \in BucketIds |-> None]
    /\ lifetime = [b \in BucketIds |-> None]
    /\ cacheRef = [b \in BucketIds |-> b]
    /\ cache = [b \in BucketIds |-> EmptyDict]
    /\ files = EmptyDict
    /\ last = Call("init", "", "", 0)
    /\ hist = [k \in Keys |-> None]
    /\ msgpack_available = TRUE
    /\ made = None
    /\ trip \in {[obj |-> e, file |-> None, loaded |-> None] : e \in Entries}
    /\ deco = None
    /\ inst = None
    /\ call = None

NextTrip == Dump \/ FromFile

SpecTrip == InitTrip /\ [][NextTrip]_vars

\* One Bucket with a fixed lifetime; some of the values set cannot be encoded.
InitEncode ==
    /\ InitCommon
    /\ kind = [b \in BucketIds |-> "Bucket"]

NextEncode ==
    \/ \E b \in BucketIds, k \in Keys, v \in Values : Set(b, k, v)
    \/ \E b \in BucketIds, k \in Keys : SetUnencodable(b, k)
    \/ \E b \in BucketIds, k \in Keys : Get(b, k)
    \/ \E b \in BucketIds, k \in Keys : Delete(b, k)
    \/ \E b \in BucketIds, k \in Keys : UnloadKey(b, k)
    \/ Tick

SpecEncode == InitEncode /\ [][NextEncode]_vars

(* ---- vocabulary of the properties ---- *)
InMemory(b, key) == hash_for_key(b, key) \in DOMAIN Mem(b)
FileExists(b, key) == path_for_hash(b, hash_for_key(b, key)) \in DOMAIN files
FileOf(b, key) == files[path_for_hash(b, hash_for_key(b, key))]
Written(key) == hist[key][1]

\* C1: a non-deferred Bucket without lifetime, alone in its directory: get(k)
\* returns the value of the most recent set(k, .) when no delete(k) followed
\* that set, and raises KeyError otherwise, whatever set, get, unload_key,
\* delete and prune_directory calls came before.
C1_GetReturnsLastSet ==
    \A b \in BucketIds :
        (/\ kind[b] = "Bucket"
         /\ lifetime[b] = None
         /\ last.op = "get"
         /\ last.bucket = b)
        => IF hist[last.key] /= None
           THEN last.exc = "" /\ last.ret = Written(last.key).value
           ELSE last.exc = "KeyError"

\* C1 witness: a get of an overwritten key that was read back from its file.
C1_Witness ==
    /\ kind["A"] = "Bucket"
    /\ lifetime["A"] = None
    /\ last.op = "get"
    /\ last.src = "file"
    /\ last.exc = ""
    /\ hist[last.key] /= None
    /\ Written(last.key).prev /= None
    /\ last.ret = Written(last.key).value

\* C2: with a lifetime L that is never changed, after set(k, v) at time t with
\* no later set or delete of k, a get(k) later than t+L raises KeyError and a
\* get(k) earlier than t+L returns v, from memory or from the file.
C2_ExpirationBoundary ==
    \A b \in BucketIds :
        (/\ kind[b] = "Bucket"
         /\ lifetime[b] /= None
         /\ last.op = "get"
         /\ last.bucket = b
         /\ hist[last.key] /= None)
        => LET w == Written(last.key)
               L == lifetime[b][1]
           IN  /\ (now > w.at + L) => (last.exc = "KeyError")
               /\ (now < w.at + L) => (last.exc = "" /\ last.ret = w.value)

\* C2 witness: some time after the set, but before t+L, the value is reloaded
\* from the file.
C2_Witness ==
    /\ kind["A"] = "Bucket"
    /\ lifetime["A"] /= None
    /\ last.op = "get"
    /\ last.src = "file"
    /\ last.exc = ""
    /\ hist[last.key] /= None
    /\ now > Written(last.key).at
    /\ now < Written(last.key).at + lifetime["A"][1]
    /\ last.ret = Written(last.key).value

\* C3: after set(k, v) at time t under lifetime L1 and a change of the
\* lifetime to L2 < L1, every get(k) before t+L1 raises KeyError.
C3_ShrunkLifetimeInvalidates ==
    \A b \in BucketIds :
        (/\ last.op = "get"
         /\ last.bucket = b
         /\ hist[last.key] /= None
         /\ Written(last.key).lifetime /= None
         /\ lifetime[b] /= None
         /\ lifetime[b][1] < Written(last.key).lifetime[1]
         /\ now < Written(last.key).at + Written(last.key).lifetime[1])
        => last.exc = "KeyError"

\* C4: an entry written while the Bucket had no lifetime is expired by a
\* get(k) made while a lifetime is set, however little time has passed:
\* KeyError, and neither the file nor the memory entry is left.
C4_UnsetExpirationExpires ==
    \A b \in BucketIds :
        (/\ last.op = "get"
         /\ last.bucket = b
         /\ hist[last.key] /= None
         /\ Written(last.key).lifetime = None
         /\ lifetime[b] /= None)
        => /\ last.exc = "KeyError"
           /\ ~FileExists(b, last.key)
           /\ ~InMemory(b, last.key)

\* C4 witness: the get that found the entry expired came at the very time of
\* the write.
C4_Witness ==
    /\ last.op = "get"
    /\ last.cause = "KeyExpirationError"
    /\ hist[last.key] /= None
    /\ Written(last.key).lifetime = None
    /\ lifetime["A"] /= None
    /\ now = Written(last.key).at

\* C5: when get(k) or `k in bucket` finds the entry expired, get raises
\* KeyError and `in` gives False, and afterwards k has no file and no memory
\* entry and delete(k) raises KeyError.
C5_ExpiredEntryRemoved ==
    \A b \in BucketIds :
        (/\ last.op \in {"get", "contains"}
         /\ last.bucket = b
         /\ last.cause = "KeyExpirationError")
        => /\ (last.op = "get") => (last.exc = "KeyError")
           /\ (last.op = "contains") => (last.exc = "" /\ last.ret = 0)
           /\ ~FileExists(b, last.key)
           /\ ~InMemory(b, last.key)
           /\ DelItem(files, Mem(b), b, last.key).exc = "KeyError"

\* C5 witness: `k in bucket` found the entry it held in memory expired.
C5_Witness ==
    /\ last.op = "contains"
    /\ last.cause = "KeyExpirationError"
    /\ last.src = "memory"
    /\ last.ret = 0

\* The most recent set of key is still within the lifetime it was written
\* under.
Live(b, key) ==
    /\ hist[key] /= None
    /\ lifetime[b] = Written(key).lifetime
    /\ (lifetime[b] /= None => now <= Written(key).at + lifetime[b][1])

\* C6: for Bucket and DeferredWriteBucket alike, unload_key(k) takes k's hash
\* out of the memory index, and the get(k) that follows a set(k, v) and the
\* unload_key(k) returns v read back from the file and puts the hash back in
\* the memory index; DeferredWriteBucket syncs first, so a value that was
\* never written is not lost.
C6_UnloadThenGet ==
    [][\A b \in BucketIds, k \in Keys :
        /\ (last'.op = "unload_key" /\ last'.bucket = b /\ last'.key = k
                /\ last'.exc = "")
           => ~InMemory(b, k)'
        /\ (/\ last.op = "unload_key" /\ last.bucket = b /\ last.key = k
            /\ last.exc = ""
            /\ last'.op = "get" /\ last'.bucket = b /\ last'.key = k
            /\ Live(b, k))
           => /\ last'.exc = ""
              /\ last'.src = "file"
              /\ last'.ret = Written(k).value
              /\ InMemory(b, k)'
      ]_vars

\* C6 witness: a DeferredWriteBucket after unload_key of a key it had set:
\* the key is out of memory and its file holds the value.
C6_Witness ==
    /\ kind["A"] = "DeferredWriteBucket"
    /\ last.op = "unload_key"
    /\ last.exc = ""
    /\ Live("A", last.key)
    /\ ~InMemory("A", last.key)
    /\ FileExists("A", last.key)
    /\ from_file(backend["A"], FileOf("A", last.key)).obj.value
            = Written(last.key).value

\* C7: on a non-deferred Bucket unload_key(k) creates, modifies and deletes no
\* file, whatever the state of k, and removes nothing but k's memory entry.
C7_UnloadLeavesFiles ==
    [][\A b \in BucketIds, k \in Keys :
        (last'.op = "unload_key" /\ last'.bucket = b /\ last'.key = k
            /\ kind[b] = "Bucket")
        => /\ files' = files
           /\ Mem(b)' = DictDel(Mem(b), hash_for_key(b, k))
      ]_vars

\* C8: delete(k) succeeds exactly when get(k) would succeed in the same
\* state; on success the file and the memory entry are gone and get(k) would
\* raise KeyError; otherwise delete(k) raises KeyError.
C8_DeleteIffResolves ==
    [][\A b \in BucketIds, k \in Keys :
        (last'.op = "delete" /\ last'.bucket = b /\ last'.key = k)
        => /\ (last'.exc = "")
                <=> (GetObjFromHash(files, Mem(b), b,
                                    hash_for_key(b, k), TRUE).outcome = "ok")
           /\ (last'.exc = "")
                => /\ ~FileExists(b, k)'
                   /\ ~InMemory(b, k)'
                   /\ IsKeyInvalidError(
                        GetObjFromHash(files, Mem(b), b,
                                       hash_for_key(b, k), TRUE).outcome)'
           /\ (last'.exc /= "") => (last'.exc = "KeyError")
      ]_vars

\* C8 witness: a delete that succeeded on a key held on disk only.
C8_Witness ==
    /\ last.op = "delete"
    /\ last.exc = ""
    /\ last.src = "file"
    /\ ~FileExists("A", last.key)
    /\ ~InMemory("A", last.key)

\* C9: after set(k, v) returned on a non-deferred Bucket, from whatever state
\* k was in, k's file holds v with expiration = now + lifetime (unset without
\* lifetime) and the memory index holds the same entry.
C9_SetWritesThrough ==
    \A b \in BucketIds :
        (last.op = "set" /\ last.bucket = b /\ last.exc = ""
            /\ kind[b] = "Bucket")
        => LET obj == [value |-> last.arg,
                       expiration_date |-> object_expiration_date(b)]
           IN  /\ FileExists(b, last.key)
               /\ from_file(backend[b], FileOf(b, last.key))
                    = [ok |-> TRUE, obj |-> obj]
               /\ InMemory(b, last.key)
               /\ Mem(b)[hash_for_key(b, last.key)] = obj

\* C9 witness: the set found the key expired in memory.
C9_Witness ==
    /\ last.op = "set"
    /\ last.exc = ""
    /\ last.cause = "KeyExpirationError"
    /\ lifetime["A"] /= None
    /\ FileExists("A", last.key)

\* C10: a set on a key that already has an entry replaces the stored
\* expiration by now + lifetime: the entry is returned until the lifetime has
\* passed since the latest write, not the first, and raises KeyError after.
C10_SetResetsExpiration ==
    \A b \in BucketIds :
        (/\ kind[b] = "Bucket"
         /\ lifetime[b] /= None
         /\ last.bucket = b
         /\ last.op \in {"set", "get"}
         /\ hist[last.key] /= None
         /\ Written(last.key).prev /= None)
        => LET w == Written(last.key)
               L == lifetime[b][1]
           IN  /\ (last.op = "set" /\ last.exc = "")
                    => Mem(b)[hash_for_key(b, last.key)].expiration_date
                            = Some(now + L)
               /\ (last.op = "get" /\ now < w.at + L)
                    => (last.exc = "" /\ last.ret = w.value)
               /\ (last.op = "get" /\ now > w.at + L)
                    => (last.exc = "KeyError")

\* C10 witness: the key is returned at a time when its first write has
\* expired, because it was rewritten while that first entry was alive.
C10_Witness ==
    /\ kind["A"] = "Bucket"
    /\ lifetime["A"] /= None
    /\ last.op = "get"
    /\ last.exc = ""
    /\ hist[last.key] /= None
    /\ Written(last.key).prev /= None
    /\ Written(last.key).at <= Written(last.key).prev[1] + lifetime["A"][1]
    /\ now > Written(last.key).prev[1] + lifetime["A"][1]
    /\ now < Written(last.key).at + lifetime["A"][1]
    /\ last.ret = Written(last.key).value

\* C12: when sync() returns on a DeferredWriteBucket, every entry of the memory
\* index that is not expired has a file at its hash path that decodes to the
\* same value and expiration date, and a fresh Bucket over the directory reads
\* that entry; the file of an expired entry is neither written nor changed,
\* and the memory index is as it was.
C12_SyncPersistsLive ==
    [][\A b \in BucketIds :
        (last'.op = "sync" /\ last'.bucket = b)
        => /\ cache' = cache
           /\ \A h \in DOMAIN Mem(b) :
                LET p == path_for_hash(b, h)
                IN  IF ~has_expired(Mem(b)[h])
                    THEN /\ p \in DOMAIN files'
                         /\ from_file(backend[b], files'[p])
                                = [ok |-> TRUE, obj |-> Mem(b)[h]]
                         /\ GetObjFromHash(files', EmptyDict, b, h, TRUE)
                                = GetResult("ok", Mem(b)[h], files',
                                            DictSet(EmptyDict, h, Mem(b)[h]),
                                            "file")
                    ELSE /\ (p \in DOMAIN files') <=> (p \in DOMAIN files)
                         /\ (p \in DOMAIN files) => (files'[p] = files[p])
      ]_vars

\* C12 witness: sync() has just written the entry of a key that was set with
\* a lifetime and never written before, in JSON.
C12_Witness ==
    /\ last.op = "sync"
    /\ backend["A"] = "JSONBackend"
    /\ InMemory("A", "k1")
    /\ Mem("A")[hash_for_key("A", "k1")].expiration_date /= None
    /\ ~has_expired(Mem("A")[hash_for_key("A", "k1")])
    /\ FileExists("A", "k1")
    /\ from_file(backend["A"], FileOf("A", "k1")).obj
            = Mem("A")[hash_for_key("A", "k1")]

\* C14: on a DeferredWriteBucket with a lifetime, a get(k) made after the most
\* recent set(k, v) is older than the lifetime raises KeyError, `k in bucket`
\* gives False, and k's hash is out of the memory index afterwards, whether
\* or not sync() ran since the set.
C14_DeferredExpiredGet ==
    \A b \in BucketIds :
        (/\ kind[b] = "DeferredWriteBucket"
         /\ lifetime[b] /= None
         /\ last.op \in {"get", "contains"}
         /\ last.bucket = b
         /\ hist[last.key] /= None
         /\ now > Written(last.key).at + lifetime[b][1])
        => /\ (last.op = "get") => (last.exc = "KeyError")
           /\ (last.op = "contains") => (last.exc = "" /\ last.ret = 0)
           /\ ~InMemory(b, last.key)

\* C15: on a DeferredWriteBucket, delete(k) of a key that resolves returns,
\* and afterwards k has no memory entry and no file and get(k) would raise
\* KeyError, also when k was never written to disk.
C15_DeferredDelete ==
    [][\A b \in BucketIds, k \in Keys :
        (/\ kind[b] = "DeferredWriteBucket"
         /\ last'.op = "delete" /\ last'.bucket = b /\ last'.key = k
         /\ GetObjFromHash(files, Mem(b), b,
                           hash_for_key(b, k), TRUE).outcome = "ok")
        => /\ last'.exc = ""
           /\ ~InMemory(b, k)'
           /\ ~FileExists(b, k)'
           /\ IsKeyInvalidError(
                GetObjFromHash(files, Mem(b), b,
                               hash_for_key(b, k), TRUE).outcome)'
      ]_vars

C17_UndecodableFile ==
    [][\A b \in BucketIds, k \in Keys :
        (/\ last'.op = "get" /\ last'.bucket = b /\ last'.key = k
         /\ ~InMemory(b, k)
         /\ FileExists(b, k)
         /\ ~from_file(backend[b], FileOf(b, k)).ok)
        => /\ last'.exc = "KeyError"
           /\ files' = files
           /\ cache' = cache
           /\ ~InMemory(b, k)'
      ]_vars

\* C17 witness: get(k) has just raised KeyError over a truncated file, which
\* is still there.
C17_Witness ==
    /\ last.op = "get"
    /\ last.exc = "KeyError"
    /\ last.cause = "KeyInvalidError"
    /\ last.src = "file"
    /\ FileExists("A", last.key)
    /\ FileOf("A", last.key) = Truncated(backend["A"])
    /\ ~InMemory("A", last.key)

\* C18: when the load of k's file fails with an I/O error other than "file
\* not found" or with an exception of from_file other than BackendLoadError,
\* get(k) raises that same exception, not KeyError, and the directory and
\* the memory index are left as they were.
C18_OtherLoadFailurePropagates ==
    [][\A b \in BucketIds, k \in Keys :
        (/\ last'.op = "get" /\ last'.bucket = b /\ last'.key = k
         /\ last'.cause \in Faults \ {""})
        => /\ last'.exc = last'.cause
           /\ last'.exc /= "KeyError"
           /\ files' = files
           /\ cache' = cache
      ]_vars

\* C18 witness: k was set and unloaded, its file decodes, and the get(k)
\* whose from_file raised RuntimeError has raised RuntimeError.
C18_Witness ==
    /\ last.op = "get"
    /\ last.exc = "RuntimeError"
    /\ hist[last.key] /= None
    /\ ~InMemory("A", last.key)
    /\ FileExists("A", last.key)
    /\ from_file(backend["A"], FileOf("A", last.key)).ok

\* The sum of the sizes of the files of fs at the paths S.
RECURSIVE SumSizes(_, _)
SumSizes(S, fs) ==
    IF S = {} THEN 0
    ELSE LET p == CHOOSE q \in S : TRUE
         IN  FileSize(fs[p]) + SumSizes(S \ {p}, fs)

\* C19: prune_directory removes exactly the files with the backend's
\* extension that decode to an entry that is expired, by its expiration date
\* or by the current lifetime; it returns their number and the sum of the
\* sizes they had; every other file (live, undecodable, of another
\* extension) stays with its content.
C19_PruneRemovesExpired ==
    [][\A b \in BucketIds :
        (last'.op = "prune_directory" /\ last'.bucket = b)
        => LET glob == {p \in DOMAIN files :
                            p[2] = file_extension(backend[b])}
               Expired(p) ==
                    LET r == from_file(backend[b], files[p])
                    IN  r.ok /\ (has_expired(r.obj) \/ lifetime_changed(b, r.obj))
               removed == {p \in glob : Expired(p)}
           IN  /\ last'.exc = ""
               /\ DOMAIN files' = (DOMAIN files) \ removed
               /\ \A p \in DOMAIN files' : files'[p] = files[p]
               /\ last'.num = Cardinality(removed)
               /\ last'.size = SumSizes(removed, files)
      ]_vars

\* C19 witness: prune_directory has removed two expired files of different
\* sizes and left the third, live one, next to the pickle file.
C19_Witness ==
    /\ last.op = "prune_directory"
    /\ last.num = 2
    /\ last.size = 5
    /\ Cardinality(DOMAIN files) = 2
    /\ \E k \in PruneKeys :
            /\ FileExists("A", k)
            /\ from_file(backend["A"], FileOf("A", k)).ok
            /\ ~has_expired(from_file(backend["A"], FileOf("A", k)).obj)

\* C20: when Buckets with the same backend share a directory, every file
\* that a prune_directory of any of them deletes decodes to an entry whose
\* stored expiration date has passed, so no entry still within the lifetime
\* it was written under is deleted.
C20_PruneOnlyPastExpiration ==
    [][\A b \in SharedIds :
        (last'.op = "prune_directory" /\ last'.bucket = b)
        => \A p \in (DOMAIN files) \ (DOMAIN files') :
                /\ from_file(backend[b], files[p]).ok
                /\ has_expired(from_file(backend[b], files[p]).obj)
      ]_vars

C13_SyncOnEveryExit ==
    \A k \in Keys :
        (/\ last.op = "scope_exit"
         /\ InMemory("A", k)
         /\ ~has_expired(Mem("A")[hash_for_key("A", k)]))
        => /\ FileExists("A", k)
           /\ from_file(backend["A"], FileOf("A", k))
                = [ok |-> TRUE, obj |-> Mem("A")[hash_for_key("A", k)]]

\* C21: a Bucket that was constructed has a config its backend accepts and,
\* for MessagePack, the msgpack dependency; no set or get raises one of
\* these configuration errors, because the constructor raised it.
C21_ConfigErrorsAtConstruction ==
    /\ \A b \in DOMAIN kind : backend_init(backend[b], config[b]) = ""
    /\ (last.op \in {"set", "get"})
            => (last.exc \notin {"TypeError", "NameError"})

\* C22: a Bucket's lifetime is always unset or strictly positive.
\* Construction raises TypeError for an unknown named component or a value
\* that is not a duration, ValueError for a lifetime value given together
\* with named components or a negative duration (one of them when several
\* apply), and otherwise stores the duration, a zero one as unset.
\* Assignment does the same with its value, and when it raises the lifetime
\* stays what it was.
C22_LifetimeValidated ==
    [][/\ \A b \in DOMAIN lifetime' :
            lifetime'[b] = None \/ lifetime'[b][1] > 0
       /\ \A b \in BucketIds, be \in BackendNames,
             cfg \in {None} \cup {Some(c) : c \in ConfigNames},
             lt \in LifetimeArgs, kwargs \in KwargSets :
            Construct(b, be, cfg, lt, kwargs)
            => LET given == DOMAIN kwargs /= {}
                   errors ==
                       (IF ~(DOMAIN kwargs \subseteq valid_kwargs)
                            \/ lt.type \in {"str", "int"}
                        THEN {"TypeError"} ELSE {})
                       \cup
                       (IF \/ given /\ lt.type /= "NoneType"
                           \/ lt.type = "timedelta" /\ lt.val < 0
                           \/ "seconds" \in DOMAIN kwargs /\ kwargs["seconds"] < 0
                        THEN {"ValueError"} ELSE {})
                   duration == IF given THEN kwargs["seconds"] ELSE lt.val
               IN  IF errors /= {}
                   THEN last'.exc \in errors /\ b \notin DOMAIN lifetime'
                   ELSE /\ last'.exc = ""
                        /\ lifetime'[b] = IF duration = 0 THEN None
                                          ELSE Some(duration)
       /\ \A b \in DOMAIN lifetime, value \in LifetimeArgs :
            AssignLifetime(b, value)
            => CASE value.type \in {"str", "int"} ->
                        last'.exc = "TypeError" /\ lifetime'[b] = lifetime[b]
                 [] value.type = "timedelta" /\ value.val < 0 ->
                        last'.exc = "ValueError" /\ lifetime'[b] = lifetime[b]
                 [] OTHER ->
                        /\ last'.exc = ""
                        /\ lifetime'[b] = IF value.val = 0 THEN None
                                          ELSE Some(value.val)
      ]_vars

(* ---- memoized calls ---- *)
\* The calls the wrapped function accepts.
MemoCalls == RawCalls(deco.argspec, deco.method)

\* The key hash wrapper computes for call c in the current state.
MemoKey(c) == hash_for_key("A", wrapper_signature(deco, c, inst))

\* What _get_obj_from_hash finds under the key of call c.
MemoLookup(c) == GetObjFromHash(files, Mem("A"), "A", MemoKey(c), TRUE)

\* C23: for a function wrapped without nocache, a call is served from the
\* cache without invoking the body whenever the entry of a call with the same
\* normalized arguments resolves, whether those arguments are passed by
\* position or by keyword.
C23_BodyAtMostOncePerArguments ==
    [][(last'.op = "call" /\ deco.nocache = None) =>
            \A c2 \in MemoCalls :
                (/\ getcallargs(deco.argspec, c2) = call'.callargs
                 /\ MemoLookup(c2).outcome = "ok")
                    => /\ ~call'.invoked
                       /\ call'.exc = ""
                       /\ call'.ret = MemoLookup(c2).obj.value]_vars

\* A call without nocache was served from the cache.
C23_Witness ==
    /\ deco.nocache = None
    /\ call.op = "call"
    /\ ~call.invoked
    /\ call.exc = ""
    /\ call.ret \in Values

\* The arguments of a call other than the nocache parameter.
OtherArgs(callargs) ==
    [x \in DOMAIN callargs \ Range(deco.nocache) |-> callargs[x]]

\* The nocache parameter of the recorded call c is true.
NocacheTrue(c) ==
    /\ c.op = "call"
    /\ deco.nocache /= None
    /\ c.callargs[deco.nocache[1]] /= 0

\* C24: a call whose nocache parameter is true always invokes the wrapped
\* function and stores its result under the call's key, in memory and on
\* disk; the next call with the same other arguments and nocache false, made
\* before that entry expires, returns the stored result without invoking the
\* function.
C24_NocacheOverwrites ==
    [][(last'.op = "call" /\ deco.nocache /= None) =>
        /\ NocacheTrue(call') =>
            /\ call'.invoked
            /\ call'.exc = "" =>
                /\ call'.key_hash[1] \in DOMAIN Mem("A")'
                /\ Mem("A")'[call'.key_hash[1]].value = call'.ret
                /\ path_for_hash("A", call'.key_hash[1]) \in DOMAIN files'
                /\ from_file("JSONBackend",
                             files'[path_for_hash("A", call'.key_hash[1])]).obj.value
                        = call'.ret
        /\ (/\ NocacheTrue(call)
            /\ call.exc = ""
            /\ ~NocacheTrue(call')
            /\ OtherArgs(call'.callargs) = OtherArgs(call.callargs)
            /\ ~has_expired(Mem("A")[call.key_hash[1]]))
                => /\ ~call'.invoked
                   /\ call'.exc = ""
                   /\ call'.ret = call.ret]_vars

\* A call with nocache true was made after the clock advanced: the function
\* was invoked and the entry holds its result and a new expiration date.
C24_Witness ==
    /\ NocacheTrue(call)
    /\ call.invoked
    /\ call.exc = ""
    /\ now > 0
    /\ Mem("A")[call.key_hash[1]].value = call.ret
    /\ Mem("A")[call.key_hash[1]].expiration_date = Some(now + 1)

\* The arguments of a call that identify it: every bound parameter but the
\* nocache parameter and the ignored ones, a method's instance counting by
\* the state its signature is taken from.
KeyArgs(callargs) ==
    [x \in DOMAIN callargs \ (Range(deco.nocache) \cup deco.ignore) |->
        IF deco.method /\ x = deco.argspec.args[1]
        THEN inst[callargs[x]] ELSE callargs[x]]

\* C25: the key hash of a wrapped call is the key hash of another call exactly
\* when the two calls agree on every argument other than the nocache
\* parameter and the ignored parameters, *args and **kwargs.
C25_KeyIgnoresNocacheAndIgnored ==
    [][(last'.op = "call") =>
        \A c2 \in MemoCalls :
            (MemoKey(c2) = call'.key_hash[1])
                <=> (KeyArgs(getcallargs(deco.argspec, c2))
                        = KeyArgs(call'.callargs))]_vars

\* A call passing extra positional arguments to a function whose *args is
\* ignored was served from the cache.
C25_Witness ==
    /\ deco.ignore = {"args"}
    /\ call.op = "call"
    /\ call.callargs["args"] = <<7>>
    /\ ~call.invoked
    /\ call.exc = ""

\* The accessor the state of an instance is taken from.
StateSource ==
    IF "_getsate_bucketcache_" \in deco.provides THEN "_getsate_bucketcache_"
    ELSE IF "__getstate__" \in deco.provides THEN "__getstate__"
    ELSE "__dict__"

\* C26: with method=True the key of a call holds the state of its instance,
\* taken from the first of _getsate_bucketcache_(), __getstate__() and
\* __dict__ the class provides, as it is when the call is made; a call is
\* served, without invoking the method, from the entry that a call with equal
\* arguments on any instance of equal state resolves to.
C26_KeyHoldsInstanceState ==
    [][(last'.op = "call" /\ deco.method) =>
        LET self == call'.callargs["self"]
        IN  /\ call'.key_hash[1][2].instance
                    = Some([from |-> StateSource, state |-> inst[self]])
            /\ \A c2 \in MemoCalls :
                (/\ inst[c2.args[1]] = inst[self]
                 /\ getcallargs(deco.argspec, c2)["a"] = call'.callargs["a"]
                 /\ MemoLookup(c2).outcome = "ok")
                    => /\ ~call'.invoked
                       /\ call'.exc = ""
                       /\ call'.ret = MemoLookup(c2).obj.value]_vars

\* A method call on the second instance was served from the cache after the
\* state of both instances was changed to the same value.
C26_Witness ==
    /\ deco.method
    /\ call.op = "call"
    /\ call.callargs["self"] = 2
    /\ inst = [i \in InstIds |-> 1]
    /\ ~call.invoked
    /\ call.exc = ""
    /\ call.key_hash[1][2].instance[1].state = 1

\* C27: a wrapped call whose body was invoked and stored its result raises
\* ValueError exactly when the key hash recomputed afterwards differs from
\* the hash computed before the call, on the nocache path and on the miss
\* path alike; a call served from the cache compares nothing and raises no
\* ValueError.
C27_MutationRaises ==
    [][(last'.op = "call") =>
        /\ (call'.invoked /\ call'.post_key_hash /= None) =>
                /\ call'.post_key_hash /= call'.key_hash
                        => call'.exc = "ValueError"
                /\ call'.post_key_hash = call'.key_hash => call'.exc = ""
        /\ ~call'.invoked =>
                /\ call'.post_key_hash = None
                /\ call'.exc /= "ValueError"]_vars

\* The body appended to the list it was passed, or assigned the attribute of
\* its instance, and the call raised ValueError.
C27_Witness ==
    /\ call.op = "call"
    /\ call.invoked
    /\ call.post_key_hash /= None
    /\ call.post_key_hash /= call.key_hash
    /\ call.exc = "ValueError"

\* C28: right after a wrapped call failed with the mutation error, no entry
\* exists under the call's pre-call key hash, neither in memory nor on disk.
C28_MutationLeavesNoEntry ==
    (last.op = "call" /\ call.exc = "ValueError") =>
        /\ call.key_hash[1] \notin DOMAIN Mem("A")
        /\ path_for_hash("A", call.key_hash[1]) \notin DOMAIN files

\* C29: with a callback registered, a wrapped call served from the cache
\* calls the callback exactly once, with the instance and the call info for a
\* method and with the call info alone otherwise, the call info holding the
\* call's arguments, the value returned and the entry's expiration date; a
\* call that invoked the wrapped function (after a miss or an expired entry,
\* or with nocache true) calls no callback, and neither does a call without a
\* registered callback.
C29_CallbackOnCacheHit ==
    [][(last'.op = "call") =>
        IF deco.callback /\ ~call'.invoked /\ call'.exc = ""
        THEN /\ Len(call'.fired) = 1
             /\ call'.fired[1].instance
                    = IF deco.method THEN Some(call'.callargs["self"]) ELSE None
             /\ call'.fired[1].callinfo.callargs = call'.callargs
             /\ call'.fired[1].callinfo.return_value = call'.ret
             /\ call'.fired[1].callinfo.expiration_date
                    = Mem("A")'[call'.key_hash[1]].expiration_date
        ELSE call'.fired = <<>>]_vars

\* A call of a function with a callback was served from the cache and the
\* callback was called.
C29_Witness ==
    /\ deco.callback
    /\ call.op = "call"
    /\ ~call.invoked
    /\ Len(call.fired) = 1
    /\ call.fired[1].callinfo.return_value = call.ret

\* What get(key) through bucket b finds in directory fs and memory index mem:
\* the value and expiration date, or the error raised.
GetOutcome(fs, mem, b, key) ==
    LET r == GetObjFromHash(fs, mem, b, hash_for_key(b, key), TRUE)
    IN  IF r.outcome = "ok" THEN [outcome |-> "ok", obj |-> Some(r.obj)]
        ELSE [outcome |-> r.outcome, obj |-> None]

\* C30: when two Buckets with different backends share a directory, a set,
\* get, delete, unload_key or prune_directory through one of them leaves
\* unchanged the other's memory index, the file the other keeps for k, and
\* what get(k) through the other returns or raises.
C30_BackendsIsolated ==
    [][\A b \in SharedIds, o \in SharedIds, k \in Keys :
        (last'.bucket = b /\ o /= b) =>
            /\ Mem(o)' = Mem(o)
            /\ FileExists(o, k)' = FileExists(o, k)
            /\ FileExists(o, k) => FileOf(o, k)' = FileOf(o, k)
            /\ GetOutcome(files', Mem(o)', o, k) = GetOutcome(files, Mem(o), o, k)]_vars

\* Both Buckets hold an entry for the key; the last call deleted it through
\* A, and B still has its file and its entry in memory.
C30_Witness ==
    /\ last.op = "delete"
    /\ last.bucket = "A"
    /\ last.exc = ""
    /\ ~FileExists("A", "k1")
    /\ FileExists("B", "k1")
    /\ InMemory("B", "k1")
    /\ GetOutcome(files, Mem("B"), "B", "k1").outcome = "ok"

C33_FailedSetLeavesKey ==
    [][\A b \in BucketIds, k \in Keys :
        (last'.op = "set" /\ last'.bucket = b /\ last'.key = k
            /\ last'.exc /= "") =>
            /\ (~InMemory(b, k) /\ ~FileExists(b, k)) =>
                    (~InMemory(b, k)' /\ ~FileExists(b, k)')
            /\ GetOutcome(files', Mem(b)', b, k) = GetOutcome(files, Mem(b), b, k)
            /\ GetOutcome(files', EmptyDict, b, k)
                    = GetOutcome(files, EmptyDict, b, k)]_vars

\* C34: assigning a lifetime changes neither the memory index nor any file,
\* and what the next get(k) does depends on the lifetime then in force: once
\* the lifetime is the L1 an entry still held was written under, and the
\* entry's expiration date has not passed, get(k) returns its value, whatever
\* lifetime was in force in between.
C34_LifetimeAssignmentFrame ==
    [][\A b \in BucketIds, k \in Keys :
        (last'.op = "set_lifetime" /\ last'.bucket = b) =>
            /\ files' = files
            /\ cache' = cache
            /\ (/\ hist[k] /= None
                /\ Written(k).lifetime /= None
                /\ lifetime'[b] = Written(k).lifetime
                /\ InMemory(b, k) \/ FileExists(b, k)
                /\ now <= Written(k).at + Written(k).lifetime[1])
               => GetOutcome(files, Mem(b), b, k)' =
                    [outcome |-> "ok",
                     obj |-> Some([value |-> Written(k).value,
                                   expiration_date |->
                                       Some(Written(k).at
                                            + Written(k).lifetime[1])])]]_vars

\* The lifetime was just set back from a shorter one to the one the entry
\* was written under; the entry is still in memory and time has passed since
\* the write.
C34_Witness ==
    /\ last.op = "set_lifetime"
    /\ hist["k1"] /= None
    /\ Written("k1").lifetime /= None
    /\ lifetime["A"] = Written("k1").lifetime
    /\ last.ret /= 0
    /\ last.ret < last.arg
    /\ InMemory("A", "k1")
    /\ now > Written("k1").at
    /\ now < Written("k1").at + Written("k1").lifetime[1]
    /\ GetOutcome(files, Mem("A"), "A", "k1").outcome = "ok"

\* C35: an entry written at time t under lifetime L1 and not rewritten makes
\* every get(k) after t+L1 raise KeyError, whatever the lifetime of the Bucket
\* is by then: a longer lifetime or none does not extend the entry.
C35_LifetimeNeverExtends ==
    \A b \in BucketIds :
        (/\ last.op = "get"
         /\ last.bucket = b
         /\ hist[last.key] /= None
         /\ Written(last.key).lifetime /= None
         /\ now > Written(last.key).at + Written(last.key).lifetime[1])
        => last.exc = "KeyError"

\* A get found the entry expired by its stored date while the Bucket's
\* lifetime was longer than the one of the write, or unset.
C35_Witness ==
    /\ last.op = "get"
    /\ last.cause = "KeyExpirationError"
    /\ hist[last.key] /= None
    /\ Written(last.key).lifetime /= None
    /\ now > Written(last.key).at + Written(last.key).lifetime[1]
    /\ \/ lifetime["A"] = None
       \/ lifetime["A"][1] > Written(last.key).lifetime[1]

\* C36: of two Buckets with the same backend over one directory, each with
\* its own memory index: a get(k) through one that holds k in memory returns
\* the in-memory value (KeyError when the entry has expired), whatever the
\* other did to the file; a get(k) that follows its unload_key(k) finds what
\* the file holds, the value in it or KeyError when there is no file.
C36_MemoryThenFile ==
    [][\A b \in SharedIds, k \in Keys :
        (last'.op = "get" /\ last'.bucket = b /\ last'.key = k) =>
            /\ InMemory(b, k) =>
                IF \/ has_expired(Mem(b)[hash_for_key(b, k)])
                   \/ lifetime_changed(b, Mem(b)[hash_for_key(b, k)])
                THEN last'.exc = "KeyError"
                ELSE /\ last'.exc = ""
                     /\ last'.ret = Mem(b)[hash_for_key(b, k)].value
            /\ (last.op = "unload_key" /\ last.bucket = b /\ last.key = k) =>
                IF ~FileExists(b, k)
                THEN last'.exc = "KeyError"
                ELSE \/ last'.exc = "KeyError"
                     \/ /\ last'.exc = ""
                        /\ last'.src = "file"
                        /\ last'.ret =
                            from_file(backend[b], FileOf(b, k)).obj.value]_vars

\* C37: while a deferred_write scope is open, the view and the original
\* Bucket hold the same memory index: a value set through the view is what
\* the next get(k) through the original returns, from memory, also while k
\* has no file; a value set through the original is what the next get(k)
\* through the view returns, and after a delete through the original the
\* next get(k) through the view raises KeyError.
C37_ViewSharesMemoryIndex ==
    [][("D" \in DOMAIN kind /\ "D" \in DOMAIN kind') =>
        /\ cacheRef'["D"] = cacheRef'["A"]
        /\ Mem("D")' = Mem("A")'
        /\ \A k \in Keys :
            /\ (/\ last.op = "set" /\ last.bucket = "D" /\ last.key = k
                /\ last.exc = ""
                /\ last'.op = "get" /\ last'.bucket = "A" /\ last'.key = k)
               => /\ last'.exc = ""
                  /\ last'.src = "memory"
                  /\ last'.ret = last.arg
            /\ (/\ last.op = "set" /\ last.bucket = "A" /\ last.key = k
                /\ last.exc = ""
                /\ last'.op = "get" /\ last'.bucket = "D" /\ last'.key = k)
               => /\ last'.exc = ""
                  /\ last'.src = "memory"
                  /\ last'.ret = last.arg
            /\ (/\ last.op = "delete" /\ last.bucket = "A" /\ last.key = k
                /\ last.exc = ""
                /\ last'.op = "get" /\ last'.bucket = "D" /\ last'.key = k)
               => last'.exc = "KeyError"]_vars

\* A get through the original Bucket has just returned, from memory, the
\* value set through the view, and k has no file.
C37_Witness ==
    /\ "D" \in DOMAIN kind
    /\ last.op = "get"
    /\ last.bucket = "A"
    /\ last.exc = ""
    /\ last.src = "memory"
    /\ hist[last.key] /= None
    /\ last.ret = Written(last.key).value
    /\ ~FileExists("A", last.key)

\* What _get_obj_from_hash takes for live: the expiration date has not
\* passed and is not later than that of an entry written now.
NotExpired(b, obj) == ~has_expired(obj) /\ ~lifetime_changed(b, obj)

\* C38: prune_directory keeps in the memory index, unchanged, every live
\* entry that was in it, adds no entry to it (a live entry that was only on
\* disk is not left loaded), and removes from it only entries that are
\* expired.
C38_PruneKeepsMemoryIndex ==
    [][\A b \in BucketIds :
        (last'.op = "prune_directory" /\ last'.bucket = b) =>
            /\ \A h \in DOMAIN Mem(b) :
                    NotExpired(b, Mem(b)[h]) =>
                        (h \in DOMAIN Mem(b)' /\ Mem(b)'[h] = Mem(b)[h])
            /\ DOMAIN Mem(b)' \subseteq DOMAIN Mem(b)
            /\ \A h \in (DOMAIN Mem(b)) \ (DOMAIN Mem(b)') :
                    ~NotExpired(b, Mem(b)[h])]_vars

\* prune_directory has run over a live entry held in memory, a live entry
\* held on disk only, and removed something expired: the first is still in
\* memory, the second is not.
C38_Witness ==
    /\ last.op = "prune_directory"
    /\ last.num >= 1
    /\ \E k \in PruneKeys :
            /\ InMemory("A", k)
            /\ NotExpired("A", Mem("A")[hash_for_key("A", k)])
    /\ \E k \in PruneKeys :
            /\ ~InMemory("A", k)
            /\ FileExists("A", k)
            /\ from_file(backend["A"], FileOf("A", k)).ok
            /\ NotExpired("A", from_file(backend["A"], FileOf("A", k)).obj)

\* C39: the function enters the signature by its name and argspec only.
\* Wrapping a different function object of the same name and argspec leaves
\* the signature of every call as it was, and the first call through the new
\* function whose arguments (other than a false nocache) are those of the
\* last call through the function wrapped before it, while that call's entry
\* resolves, returns that entry's value without invoking the new body.
C39_SameNameSameEntry ==
    [][/\ last'.op = "wrap" =>
            \A c \in MemoCalls, st \in [DOMAIN inst -> Flags] :
                wrapper_signature(deco', c, st) = wrapper_signature(deco, c, st)
       /\ (/\ last'.op = "call"
           /\ last.op = "wrap"
           /\ ~deco.method
           /\ call.op = "call"
           /\ call.exc = ""
           /\ OtherArgs(call'.callargs) = OtherArgs(call.callargs)
           /\ ~NocacheTrue(call')
           /\ GetObjFromHash(files, Mem("A"), "A",
                             call.key_hash[1], TRUE).outcome = "ok")
          => /\ call'.key_hash = call.key_hash
             /\ ~call'.invoked
             /\ call'.exc = ""
             /\ call'.ret = GetObjFromHash(files, Mem("A"), "A",
                                           call.key_hash[1], TRUE).obj.value]_vars

\* A call through the second function object was served the value that only
\* the body of the first returns.
C39_Witness ==
    /\ call.op = "call"
    /\ deco.fn = 2
    /\ ~call.invoked
    /\ call.exc = ""
    /\ call.ret = 1
    /\ last.op = "call"

\* C40: in every state of a single non-deferred Bucket that alone writes to
\* its directory, every hash in the memory index has a file at its path, and
\* the file decodes to the value and the expiration date of the entry in
\* memory.
C40_MemoryBackedByFile ==
    \A b \in BucketIds :
        \A h \in DOMAIN Mem(b) :
            /\ path_for_hash(b, h) \in DOMAIN files
            /\ from_file(backend[b], files[path_for_hash(b, h)]).ok
            /\ from_file(backend[b], files[path_for_hash(b, h)]).obj = Mem(b)[h]

\* The entry in memory and its file were overwritten by a second set, under
\* another lifetime, and then read.
C40_Witness ==
    /\ last.op = "get"
    /\ last.exc = ""
    /\ InMemory("A", "k1")
    /\ hist["k1"] /= None
    /\ Written("k1").prev /= None
    /\ Mem("A")[hash_for_key("A", "k1")].expiration_date /= None
    /\ lifetime["A"] /= Written("k1").lifetime

====
